---- MODULE Spec2Model ----
(***************************************************************************)
(* Model of ngmix.metacal.Metacal (the shear-response pipeline and its     *)
(* class-level noise-symmetrization cache) over ngmix.observation          *)
(* Observation containers.                                                 *)
(*                                                                         *)
(* Pixel arrays and galsim objects are external collaborators: they are    *)
(* represented symbolically.  An array is [rows, cols, pix]; pix records   *)
(* the chain of galsim operations that produced the pixels (gal: the       *)
(* galaxy-side model, kern: the model it was convolved with), the noise    *)
(* added by whitening (white) and the symmetrization field added (sym).    *)
(* Shears are integers in units of 0.01.                                   *)
(*                                                                         *)
(* metacal.py is modelled as it is written.  The "if self.symmetrize:" at  *)
(* line 243 of get_target_image has no body, so the file does not compile  *)
(* (IndentationError); the failure is charged to get_target_image, the     *)
(* method that contains it: every call of it raises, and so does every     *)
(* caller.  The other methods are modelled by their statements.            *)
(* _symmetrize_noise uses the name galsim, which neither the method nor    *)
(* the module imports: a call whose key is not cached raises NameError at  *)
(* line 263, before anything is computed or stored.                        *)
(*                                                                         *)
(* The estimators compute in exact fractions.  numpy.linalg.inv raises     *)
(* only when its LU factorisation meets a pivot that is exactly zero in    *)
(* floating point; a singular matrix whose elimination leaves a rounding   *)
(* residue is inverted silently.  Inv models that test, and the ensembles  *)
(* include one whose response matrices are of that kind.                   *)
(***************************************************************************)
EXTENDS Integers, Sequences, FiniteSets, TLC

\* ------------------------------------------------------------------ bounds
MaxCalls == 2

\* ---------------------------------------------------------------- helpers
Abs(x) == IF x < 0 THEN -x ELSE x

Max2(a, b) == IF a >= b THEN a ELSE b

Digit(d) ==
    CASE d = 0 -> "0" [] d = 1 -> "1" [] d = 2 -> "2" [] d = 3 -> "3"
      [] d = 4 -> "4" [] d = 5 -> "5" [] d = 6 -> "6" [] d = 7 -> "7"
      [] d = 8 -> "8" [] OTHER -> "9"

\* '%s' % n for a non-negative int below 100 (array dimensions)
IntStr(n) == IF n < 10 THEN Digit(n) ELSE Digit(n \div 10) \o Digit(n % 10)

\* '%s' % x for the float x = h/100: shortest repr, at least one decimal
FloatStr(h) ==
    LET a    == Abs(h)
        frac == a % 100
        fs   == IF frac % 10 = 0 THEN Digit(frac \div 10)
                ELSE Digit(frac \div 10) \o Digit(frac % 10)
    IN  (IF h < 0 THEN "-" ELSE "") \o IntStr(a \div 100) \o "." \o fs

\* ------------------------------------------------------- symbolic values
NoOps == << >>

Op(name, a, b, k) == [op |-> name, a |-> a, b |-> b, k |-> k]

Model(src, ops) == [src |-> src, ops |-> ops]

NoModel == Model("", NoOps)

NoWhite == [var |-> 0, seeded |-> FALSE, n |-> 0]

NoSym == [rows |-> 0, cols |-> 0, med |-> 0, psf_inv |-> "", g1 |-> 0,
          g2 |-> 0, target |-> NoModel, n |-> 0]

Pix(gal, kern, white, sym) ==
    [gal |-> gal, kern |-> kern, white |-> white, sym |-> sym]

Array(rows, cols, pix) == [rows |-> rows, cols |-> cols, pix |-> pix]

\* a raw input array with content label src
Raw(rows, cols, src) ==
    Array(rows, cols, Pix(Model(src, NoOps), NoModel, NoWhite, NoSym))

\* a constant array (numpy.zeros(shape) + level)
Flat(rows, cols, level) ==
    Array(rows, cols,
          Pix(Model("const", <<Op("level", level, 0, "")>>), NoModel,
              NoWhite, NoSym))

NoArray == Raw(0, 0, "")

\* Jacobian: the four derivatives and the reference centre, in half pixels
Jac(dvdrow, dvdcol, dudrow, dudcol, row2, col2) ==
    [dvdrow |-> dvdrow, dvdcol |-> dvdcol, dudrow |-> dudrow,
     dudcol |-> dudcol, row2 |-> row2, col2 |-> col2]

\* UnitJacobian at the canonical centre (shape - 1)/2
UnitJacobianAt(rows, cols) == Jac(1, 0, 0, 1, rows - 1, cols - 1)

NoJacobian == Jac(0, 0, 0, 0, 0, 0)

NoObs == [image |-> NoArray, weight |-> NoArray, jacobian |-> NoJacobian,
          has_psf |-> FALSE, psf_image |-> NoArray,
          psf_weight |-> NoArray, psf_jacobian |-> NoJacobian]

\* Observation(image, weight=None, jacobian=None, psf=None).  NoArray,
\* NoJacobian and NoObs stand for the argument None.  set_weight: a missing
\* weight becomes numpy.zeros(image.shape) + 1.0, a given one must have the
\* image's shape; set_jacobian: a missing jacobian becomes the unit jacobian
\* at the canonical centre; set_psf: the psf is stored only when given.
Observation(image, weight, jac, psf) ==
    [image        |-> image,
     weight       |-> IF weight = NoArray
                      THEN Flat(image.rows, image.cols, 1) ELSE weight,
     jacobian     |-> IF jac = NoJacobian
                      THEN UnitJacobianAt(image.rows, image.cols) ELSE jac,
     has_psf      |-> psf # NoObs,
     psf_image    |-> psf.image,
     psf_weight   |-> psf.weight,
     psf_jacobian |-> psf.jacobian]

has_psf(o) == o.has_psf

\* ------------------------------------------------------------ the inputs
\* The observations handed to the pipeline: two on the same 2x2 grid with
\* different galaxy, psf, noise level and pixel scale, one on a 3x2 grid,
\* and one without a psf.
PsfObs(src) == Observation(Raw(3, 3, src), NoArray, NoJacobian, NoObs)

InputObs ==
    <<Observation(Raw(2, 2, "galA"), Flat(2, 2, 2), NoJacobian, PsfObs("psfP")),
      Observation(Raw(2, 2, "galB"), Flat(2, 2, 4), Jac(2, 0, 0, 2, 1, 1),
                  PsfObs("psfQ")),
      Observation(Raw(3, 2, "galA"), NoArray, NoJacobian, PsfObs("psfP")),
      Observation(Raw(2, 2, "galA"), NoArray, NoJacobian, NoObs)>>

ObsIds == DOMAIN InputObs

Inst == {1, 2}

\* the constructor arguments tried: instance 1 is built on observation 1 or
\* 4 with any of the flag combinations below, instance 2 on observation 2 or
\* 3 with symmetrize alone
Flags(symmetrize, whiten, same_seed) ==
    [symmetrize |-> symmetrize, whiten |-> whiten, same_seed |-> same_seed]

Setups(i) ==
    IF i = 1
    THEN {1, 4} \X {Flags(FALSE, FALSE, FALSE), Flags(FALSE, TRUE, FALSE),
                    Flags(TRUE, FALSE, FALSE), Flags(TRUE, TRUE, FALSE),
                    Flags(TRUE, TRUE, TRUE)}
    ELSE {2, 3} \X {Flags(TRUE, FALSE, FALSE)}

\* shear arguments: ngmix.Shape(g1, g2), a plain pair, or None
Shape(g1, g2) == [kind |-> "Shape", g1 |-> g1, g2 |-> g2]

NoneShear == [kind |-> "None", g1 |-> 0, g2 |-> 0]

PlainPair == [kind |-> "tuple", g1 |-> 1, g2 |-> 0]

Shapes == {Shape(0, 0), Shape(1, -2)}

ShearArgs == Shapes \cup {PlainPair}

\* --------------------------------------------------------- Metacal object
\* an instance that was never constructed
NoMetacal ==
    [built |-> FALSE, obs |-> 0, symmetrize |-> FALSE, whiten |-> FALSE,
     same_seed |-> FALSE, seed |-> 0, has_med |-> FALSE, med_wt |-> 0,
     jacobian |-> NoJacobian, pixel_scale |-> 0,
     gs_image |-> NoArray, gs_psf_image |-> NoArray,
     gs_psf_int_nopix |-> NoModel, gs_psf_int_inv |-> "",
     gs_image_int_nopsf |-> NoModel]

\* galsim.JacobianWCS(...).maxLinearScale(); the input jacobians are a
\* scale times a signed permutation, for which it is the largest |entry|
MaxLinearScale(j) ==
    Max2(Max2(Abs(j.dudrow), Abs(j.dudcol)), Max2(Abs(j.dvdrow), Abs(j.dvdcol)))

\* numpy.median of a weight map (the maps of the model are constant)
Median(w) == w.pix.gal.ops[1].a

\* galsim.InterpolatedImage(image, x_interpolant=Lanczos(5, True, 1e-4))
Interpolated(image) ==
    Model(image.pix.gal.src, <<Op("interp", 5, 0, "lanczos")>>)

\* Metacal._set_data past the psf check: the attributes it sets.  o is the
\* id of the observation, ob its value, sd the seed numpy.random.randint
\* returns.
SetDataAttributes(o, ob, symmetrize, whiten, same_seed, sd) ==
    LET scale      == MaxLinearScale(ob.jacobian)
        gs_psf_int == Interpolated(ob.psf_image)
        gs_im_int  == Interpolated(ob.image)
    IN [built      |-> TRUE,
        obs        |-> o,
        symmetrize |-> symmetrize,
        whiten     |-> whiten,
        same_seed  |-> same_seed,
        seed       |-> IF whiten /\ same_seed THEN sd ELSE 0,
        has_med    |-> whiten \/ symmetrize,
        med_wt     |-> IF whiten \/ symmetrize THEN Median(ob.weight) ELSE 0,
        jacobian   |-> ob.jacobian,
        pixel_scale |-> scale,
        gs_image     |-> ob.image,
        gs_psf_image |-> ob.psf_image,
        gs_psf_int_nopix |->
            Model(gs_psf_int.src,
                  gs_psf_int.ops \o <<Op("deconv", scale, 0, "pixel")>>),
        gs_psf_int_inv |-> gs_psf_int.src,
        gs_image_int_nopsf |->
            Model(gs_im_int.src,
                  gs_im_int.ops \o <<Op("deconv", 0, 0, gs_psf_int.src)>>)]

\* variant of SetData: the psf check is missing
SetDataUnchecked(o, ob, symmetrize, whiten, same_seed, sd) ==
    [status |-> "ok",
     self |-> SetDataAttributes(o, ob, symmetrize, whiten, same_seed, sd),
     obs |-> ob]

\* variant of SetData: the image is handed to galsim without a copy and
\* comes back interpolated
SetDataNoCopy(o, ob, symmetrize, whiten, same_seed, sd) ==
    IF ~has_psf(ob)
    THEN [status |-> "ValueError", self |-> NoMetacal, obs |-> ob]
    ELSE [status |-> "ok",
          self |-> SetDataAttributes(o, ob, symmetrize, whiten, same_seed, sd),
          obs |-> [ob EXCEPT !.image.pix.gal = Interpolated(ob.image)]]

\* Metacal._set_data(obs, symmetrize, whiten, same_seed).  Result: status,
\* the instance, and the observation after the call.
SetData(o, ob, symmetrize, whiten, same_seed, sd) ==
    IF ~has_psf(ob)
    THEN [status |-> "ValueError", self |-> NoMetacal, obs |-> ob]
    ELSE [status |-> "ok",
          self |-> SetDataAttributes(o, ob, symmetrize, whiten, same_seed, sd),
          obs |-> ob]

\* variant of CheckShape: anything is let through
CheckShapeAny(shear) == TRUE

\* _check_shape
CheckShape(shear) == shear.kind = "Shape"

\* variant of Dilation: the components are used with their signs
DilationSigned(shear) == 100 + 2 * Max2(shear.g1, shear.g2)

\* the dilation 1 + 2*max(|g1|, |g2|), in units of 0.01
Dilation(shear) == 100 + 2 * Max2(Abs(shear.g1), Abs(shear.g2))

\* drawImage(image=ImageD(bounds), scale=pixel_scale, method='no_pixel')
Drawn(m, model) ==
    Model(model.src, model.ops \o <<Op("draw", m.pixel_scale, 0, "no_pixel")>>)

\* variant of GetTargetPsf: the pixel-free psf is sheared, then
\* convolved with the pixel
GetTargetPsfShearsNopix(m, shear, type) ==
    IF ~CheckShape(shear)
    THEN [status |-> "TypeError", psf_image |-> NoArray, psf_interp |-> NoModel]
    ELSE
      LET nopix  == m.gs_psf_int_nopix
          grown  == Model(nopix.src,
                          nopix.ops \o <<Op("dilate", Dilation(shear), 0, "")>>)
          shr    == IF type = "psf_shear"
                    THEN Model(grown.src,
                               grown.ops \o <<Op("shear", shear.g1, shear.g2, "")>>)
                    ELSE grown
          interp == Model(shr.src,
                          shr.ops \o <<Op("conv", m.pixel_scale, 0, "pixel")>>)
      IN [status     |-> "ok",
          psf_image  |-> Array(m.gs_psf_image.rows, m.gs_psf_image.cols,
                               Pix(Drawn(m, interp), NoModel, NoWhite, NoSym)),
          psf_interp |-> interp]

\* Metacal.get_target_psf(shear, type)
GetTargetPsf(m, shear, type) ==
    IF ~CheckShape(shear)
    THEN [status |-> "TypeError", psf_image |-> NoArray, psf_interp |-> NoModel]
    ELSE
      LET nopix  == m.gs_psf_int_nopix
          grown  == Model(nopix.src,
                          nopix.ops \o <<Op("dilate", Dilation(shear), 0, "")>>)
          conv   == Model(grown.src,
                          grown.ops \o <<Op("conv", m.pixel_scale, 0, "pixel")>>)
          interp == IF type = "psf_shear"
                    THEN Model(conv.src,
                               conv.ops \o <<Op("shear", shear.g1, shear.g2, "")>>)
                    ELSE conv
      IN [status     |-> "ok",
          psf_image  |-> Array(m.gs_psf_image.rows, m.gs_psf_image.cols,
                               Pix(Drawn(m, interp), NoModel, NoWhite, NoSym)),
          psf_interp |-> interp]

\* Metacal.get_sheared_image_interp_nopsf(shear)
GetShearedImageInterpNopsf(m, shear) ==
    IF ~CheckShape(shear) THEN [status |-> "TypeError", model |-> NoModel]
    ELSE [status |-> "ok",
          model  |-> Model(m.gs_image_int_nopsf.src,
                           m.gs_image_int_nopsf.ops
                              \o <<Op("shear", shear.g1, shear.g2, "")>>)]

\* variant of GetTargetImage: the "if self.symmetrize:" of line 243 has a
\* body that does nothing, and the method runs; dw is the realisation the
\* whitening noise generator produces when it is not reset to the seed
GetTargetImageRuns(m, psf_interp, shear, dw) ==
    LET si    == IF shear.kind # "None"
                 THEN GetShearedImageInterpNopsf(m, shear)
                 ELSE [status |-> "ok", model |-> m.gs_image_int_nopsf]
        white == IF m.whiten
                 THEN [var |-> m.med_wt, seeded |-> m.same_seed,
                       n |-> IF m.same_seed THEN m.seed ELSE dw]
                 ELSE NoWhite
    IN IF si.status # "ok" THEN [status |-> si.status, image |-> NoArray]
       ELSE [status |-> "ok",
             image  |-> Array(m.gs_image.rows, m.gs_image.cols,
                              Pix(Drawn(m, si.model), psf_interp, white,
                                  NoSym))]

\* Metacal.get_target_image(psf_interp, shear): the "if self.symmetrize:"
\* of line 243 has no body and the file does not compile, so no statement
\* of the method runs, whatever the arguments
GetTargetImage(m, psf_interp, shear, dw) ==
    [status |-> "IndentationError", image |-> NoArray]

\* ------------------------------------------------ noise symmetrization
\* Metacal._get_symmetrize_shapes(type, shear)
GetSymmetrizeShapes(type, shear) ==
    IF shear.kind = "tuple"
    THEN [status |-> "AttributeError", g1 |-> 0, g2 |-> 0, g1psf |-> 0,
          g2psf |-> 0]
    ELSE IF type = "gal"
    THEN [status |-> "ok", g1 |-> shear.g1, g2 |-> shear.g2, g1psf |-> 0,
          g2psf |-> 0]
    ELSE [status |-> "ok", g1 |-> 0, g2 |-> 0, g1psf |-> shear.g1,
          g2psf |-> shear.g2]

\* Metacal._get_symmetrize_key(g1, g2, g1psf, g2psf, nrow, ncol)
GetSymmetrizeKey(g1, g2, g1psf, g2psf, nrow, ncol) ==
    IntStr(nrow) \o " " \o IntStr(ncol) \o " " \o FloatStr(g1) \o " "
      \o FloatStr(g2) \o " " \o FloatStr(g1psf) \o " " \o FloatStr(g2psf)

\* image = image_in.copy(): the working image is a new array
ImageCopyShares == FALSE

\* "key in Metacal.sym_cache"
CacheHit(cache, key) == key \in DOMAIN cache

NoEvent ==
    [type |-> "", key |-> "", hit |-> FALSE, g1 |-> 0, g2 |-> 0,
     g1psf |-> 0, g2psf |-> 0, nrow |-> 0, ncol |-> 0, image_in |-> NoArray,
     image_in_after |-> NoArray, image |-> NoArray]

SymResult(status, image, cache, ev) ==
    [status |-> status, image |-> image, cache |-> cache, ev |-> ev]

\* the record of a _symmetrize_noise call up to the cache test
SymEvent(type, sh, key, image_in) ==
    [NoEvent EXCEPT !.type = type, !.key = key, !.g1 = sh.g1, !.g2 = sh.g2,
                    !.g1psf = sh.g1psf, !.g2psf = sh.g2psf,
                    !.nrow = image_in.rows, !.ncol = image_in.cols,
                    !.image_in = image_in, !.image_in_after = image_in]

\* _symmetrize_noise, the branch taken when the key is cached:
\* image += Metacal.sym_cache[key]
SymmetrizeHit(cache, type, sh, key, image_in) ==
    LET image == [image_in EXCEPT !.pix.sym = cache[key]]
    IN SymResult("ok", image, cache,
                 [SymEvent(type, sh, key, image_in) EXCEPT
                     !.hit = TRUE, !.image = image,
                     !.image_in_after =
                         IF ImageCopyShares THEN image ELSE image_in])

\* noise_diff as the statements of the miss branch after its first (lines
\* 264 to 281) form it: the noise model is built from a noise image of
\* sigma self.med_err, the inverse of the original psf, the shear of the
\* branch and the target psf; image.symmetrizeNoise adds a field of
\* realisation ds to the copy of image_in, and noise_diff is that field
NoiseDiff(m, type, sh, image_in, psf_target_interp, ds) ==
    [rows |-> image_in.rows, cols |-> image_in.cols,
     med |-> m.med_wt, psf_inv |-> m.gs_psf_int_inv,
     g1 |-> IF type = "gal" THEN sh.g1 ELSE sh.g1psf,
     g2 |-> IF type = "gal" THEN sh.g2 ELSE sh.g2psf,
     target |-> psf_target_interp, n |-> ds]

\* the cache after "Metacal.sym_cache[key] = noise_diff" (line 282)
CacheStore(cache, key, noise_diff) ==
    [k \in DOMAIN cache \cup {key} |->
        IF k = key THEN noise_diff ELSE cache[k]]

\* variant of SymmetrizeMiss: the name galsim is bound, the branch runs to
\* its end and stores noise_diff under the key
SymmetrizeMissStores(m, cache, type, sh, key, image_in, psf_target_interp, ds) ==
    LET noise_diff == NoiseDiff(m, type, sh, image_in, psf_target_interp, ds)
        image      == [image_in EXCEPT !.pix.sym = noise_diff]
    IN SymResult("ok", image, CacheStore(cache, key, noise_diff),
                 [SymEvent(type, sh, key, image_in) EXCEPT !.image = image])

\* _symmetrize_noise, the branch taken when the key is not cached: its
\* first statement, GN = galsim.GaussianNoise(sigma=self.med_err), looks
\* up the name galsim, which is not defined: NameError.  Nothing is
\* computed, the image is not returned and the cache is left as it was.
SymmetrizeMiss(m, cache, type, sh, key, image_in, psf_target_interp, ds) ==
    SymResult("NameError", NoArray, cache, SymEvent(type, sh, key, image_in))

\* Metacal._symmetrize_noise(type, image_in, psf_target_interp, shear) on
\* the class-level cache; ds is the realisation of numpy's generator.
\* Result: status, the returned image, the cache after the call, and a
\* record of the call (ev).
SymmetrizeNoise(m, cache, type, image_in, psf_target_interp, shear, ds) ==
    LET sh == GetSymmetrizeShapes(type, shear)
        key == GetSymmetrizeKey(sh.g1, sh.g2, sh.g1psf, sh.g2psf,
                                image_in.rows, image_in.cols)
    IN
    IF sh.status # "ok" THEN SymResult(sh.status, NoArray, cache, NoEvent)
    ELSE IF CacheHit(cache, key)
    THEN SymmetrizeHit(cache, type, sh, key, image_in)
    ELSE SymmetrizeMiss(m, cache, type, sh, key, image_in,
                        psf_target_interp, ds)

\* ---------------------------------------------------------- _make_obs
\* Metacal._make_obs(im, psf_im): a new Observation with the drawn image,
\* the observation's weight and jacobian and a psf Observation of the drawn
\* psf image.  Result: the new Observation (out) and self.obs afterwards.
MakeObs(ob, im, psf_im) ==
    LET psf_obs == Observation(psf_im, NoArray, ob.jacobian, NoObs)
    IN [out |-> Observation(im, ob.weight, ob.jacobian, psf_obs),
        obs |-> ob]

\* ------------------------------------------------------ public operations
\* the outcome of one call: status ("ok" or the exception raised), the
\* Observations returned (out), the cache and self.obs after the call, the
\* symmetrization calls made (syms), and for the get_target_* calls the
\* returned psf image, psf model and image
Result(status, out, cache, ob, syms, psf_image, psf_interp, image) ==
    [status |-> status, out |-> out, cache |-> cache, obs |-> ob,
     syms |-> syms, psf_image |-> psf_image, psf_interp |-> psf_interp,
     image |-> image]

Raised(status, cache, ob, syms) ==
    Result(status, << >>, cache, ob, syms, NoArray, NoModel, NoArray)

Returned(out, cache, ob, syms) ==
    Result("ok", out, cache, ob, syms, NoArray, NoModel, NoArray)

\* the symmetrization step of a public operation when self.symmetrize is off
NotSymmetrized(cache, image) == SymResult("ok", image, cache, NoEvent)

Events(e) == IF e = NoEvent THEN << >> ELSE <<e>>

\* Metacal.get_obs_galshear(shear, get_unsheared)
GetObsGalshear(m, ob, cache, shear, get_unsheared, dw1, ds1, dw2, ds2) ==
    LET tp == GetTargetPsf(m, shear, "gal_shear")
        ti == GetTargetImage(m, tp.psf_interp, shear, dw1)
        s1 == IF m.symmetrize
              THEN SymmetrizeNoise(m, cache, "gal", ti.image, tp.psf_interp,
                                   shear, ds1)
              ELSE NotSymmetrized(cache, ti.image)
        mo1 == MakeObs(ob, s1.image, tp.psf_image)
        ui == GetTargetImage(m, tp.psf_interp, NoneShear, dw2)
        s2 == SymmetrizeNoise(m, s1.cache, "gal", ui.image, tp.psf_interp,
                              Shape(0, 0), ds2)
        mo2 == MakeObs(mo1.obs, s2.image, tp.psf_image)
    IN
    IF tp.status # "ok" THEN Raised(tp.status, cache, ob, << >>)
    ELSE IF ti.status # "ok" THEN Raised(ti.status, cache, ob, << >>)
    ELSE IF s1.status # "ok" THEN Raised(s1.status, s1.cache, ob, Events(s1.ev))
    ELSE IF ~get_unsheared
    THEN Returned(<<mo1.out>>, s1.cache, mo1.obs, Events(s1.ev))
    ELSE IF ui.status # "ok"
    THEN Raised(ui.status, s1.cache, mo1.obs, Events(s1.ev))
    ELSE IF s2.status # "ok"
    THEN Raised(s2.status, s2.cache, mo1.obs, Events(s1.ev) \o Events(s2.ev))
    ELSE Returned(<<mo1.out, mo2.out>>, s2.cache, mo2.obs,
                  Events(s1.ev) \o Events(s2.ev))

\* Metacal.get_obs_dilated_only(shear)
GetObsDilatedOnly(m, ob, cache, shear, dw, ds) ==
    LET tp == GetTargetPsf(m, shear, "gal_shear")
        ui == GetTargetImage(m, tp.psf_interp, NoneShear, dw)
        s1 == IF m.symmetrize
              THEN SymmetrizeNoise(m, cache, "gal", ui.image, tp.psf_interp,
                                   Shape(0, 0), ds)
              ELSE NotSymmetrized(cache, ui.image)
        mo == MakeObs(ob, s1.image, tp.psf_image)
    IN
    IF tp.status # "ok" THEN Raised(tp.status, cache, ob, << >>)
    ELSE IF ui.status # "ok" THEN Raised(ui.status, cache, ob, << >>)
    ELSE IF s1.status # "ok" THEN Raised(s1.status, s1.cache, ob, Events(s1.ev))
    ELSE Returned(<<mo.out>>, s1.cache, mo.obs, Events(s1.ev))

\* Metacal.get_obs_psfshear(shear)
GetObsPsfshear(m, ob, cache, shear, dw, ds) ==
    LET tp == GetTargetPsf(m, shear, "psf_shear")
        ci == GetTargetImage(m, tp.psf_interp, NoneShear, dw)
        s1 == IF m.symmetrize
              THEN SymmetrizeNoise(m, cache, "psf", ci.image, tp.psf_interp,
                                   shear, ds)
              ELSE NotSymmetrized(cache, ci.image)
        mo == MakeObs(ob, s1.image, tp.psf_image)
    IN
    IF tp.status # "ok" THEN Raised(tp.status, cache, ob, << >>)
    ELSE IF ci.status # "ok" THEN Raised(ci.status, cache, ob, << >>)
    ELSE IF s1.status # "ok" THEN Raised(s1.status, s1.cache, ob, Events(s1.ev))
    ELSE Returned(<<mo.out>>, s1.cache, mo.obs, Events(s1.ev))

\* ------------------------------------------------------------------ state
VARIABLES
    obs,        \* the caller's Observations, by id
    mc,         \* the Metacal instances
    sym_cache,  \* Metacal.sym_cache, shared by all instances
    ret,        \* the last call and its outcome
    applied,    \* history: every (key components, field added) so far
    ncalls,     \* number of pipeline calls made
    th,         \* concurrent runs: the call each instance's thread is in
    est,        \* the measurement ensemble handed to the estimators
    self_obs,   \* the Observation whose setters are called
    self_kobs   \* the KObservation whose set_psf is called

vars == <<obs, mc, sym_cache, ret, applied, ncalls, th, est, self_obs,
          self_kobs>>

\* no object: the name is not bound to an instance yet
NoObject == [built |-> FALSE]

\* no measurement ensemble: the arrays g, gpsf, R, Rpsf, weights are empty
NoEnsemble ==
    [g |-> << >>, gpsf |-> << >>, R |-> << >>, Rpsf |-> << >>,
     weights |-> << >>, residue |-> FALSE]

\* a thread outside any call
Idle == [pc |-> "idle", op |-> "", shear |-> NoneShear, type |-> "",
         key |-> "", sh |-> GetSymmetrizeShapes("gal", NoneShear),
         image_in |-> NoArray, psf_image |-> NoArray,
         psf_interp |-> NoModel]

\* the distinguishable realisations of a random draw (noise field, seed)
Draws == {1, 2}

\* a call: the operation, the instance and the observation it runs on, its
\* arguments and its outcome (the cache and observation are in the state)
NoCall == [op |-> "", inst |-> 0, o |-> 0, shear |-> NoneShear, type |-> "",
           get_unsheared |-> FALSE, res |-> Raised("", << >>, << >>, << >>)]

Call(op, i, o, shear, type, get_unsheared, res) ==
    [op |-> op, inst |-> i, o |-> o, shear |-> shear, type |-> type,
     get_unsheared |-> get_unsheared,
     res |-> [res EXCEPT !.cache = << >>, !.obs = << >>]]

\* the key components and the field added, for each symmetrization made
Applications(syms) ==
    {[nrow |-> syms[k].nrow, ncol |-> syms[k].ncol, g1 |-> syms[k].g1,
      g2 |-> syms[k].g2, g1psf |-> syms[k].g1psf, g2psf |-> syms[k].g2psf,
      field |-> syms[k].image.pix.sym] :
        k \in {j \in DOMAIN syms : syms[j].image # NoArray}}

Init ==
    /\ obs = InputObs
    /\ mc = [i \in Inst |-> NoMetacal]
    /\ sym_cache = << >>
    /\ ret = NoCall
    /\ applied = {}
    /\ ncalls = 0
    /\ th = [i \in Inst |-> Idle]
    /\ est = NoEnsemble
    /\ self_obs = NoObject
    /\ self_kobs = NoObject

\* mc = Metacal(obs, symmetrize=..., whiten=..., same_seed=...)
Construct(i, o, symmetrize, whiten, same_seed, sd) ==
    /\ ~mc[i].built
    /\ LET r == SetData(o, obs[o], symmetrize, whiten, same_seed, sd)
       IN /\ mc' = IF r.status = "ok" THEN [mc EXCEPT ![i] = r.self] ELSE mc
          /\ obs' = [obs EXCEPT ![o] = r.obs]
          /\ ret' = Call("Metacal", i, o, NoneShear, "", FALSE,
                         Raised(r.status, << >>, << >>, << >>))
    /\ UNCHANGED <<sym_cache, applied, ncalls, th, est, self_obs, self_kobs>>

\* the effect of a pipeline call with outcome r on instance i
Finish(op, i, shear, type, get_unsheared, r) ==
    /\ sym_cache' = r.cache
    /\ obs' = [obs EXCEPT ![mc[i].obs] = r.obs]
    /\ ret' = Call(op, i, mc[i].obs, shear, type, get_unsheared, r)
    /\ applied' = applied \cup Applications(r.syms)
    /\ ncalls' = ncalls + 1
    /\ UNCHANGED <<mc, th, est, self_obs, self_kobs>>

CallGetObsGalshear(i, shear, get_unsheared, dw1, ds1, dw2, ds2) ==
    /\ mc[i].built /\ ncalls < MaxCalls
    /\ Finish("get_obs_galshear", i, shear, "", get_unsheared,
              GetObsGalshear(mc[i], obs[mc[i].obs], sym_cache, shear,
                             get_unsheared, dw1, ds1, dw2, ds2))

CallGetObsDilatedOnly(i, shear, dw, ds) ==
    /\ mc[i].built /\ ncalls < MaxCalls
    /\ Finish("get_obs_dilated_only", i, shear, "", FALSE,
              GetObsDilatedOnly(mc[i], obs[mc[i].obs], sym_cache, shear,
                                dw, ds))

CallGetObsPsfshear(i, shear, dw, ds) ==
    /\ mc[i].built /\ ncalls < MaxCalls
    /\ Finish("get_obs_psfshear", i, shear, "", FALSE,
              GetObsPsfshear(mc[i], obs[mc[i].obs], sym_cache, shear, dw, ds))

\* mc.get_target_psf(shear, type) called directly
CallGetTargetPsf(i, shear, type) ==
    /\ mc[i].built /\ ncalls < MaxCalls
    /\ LET tp == GetTargetPsf(mc[i], shear, type)
       IN Finish("get_target_psf", i, shear, type, FALSE,
                 Result(tp.status, << >>, sym_cache, obs[mc[i].obs], << >>,
                        tp.psf_image, tp.psf_interp, NoArray))

\* mc.get_target_image(psf_interp, shear) called directly, psf_interp being
\* the model get_target_psf(pshear, 'gal_shear') returned
CallGetTargetImage(i, pshear, shear, dw) ==
    /\ mc[i].built /\ ncalls < MaxCalls
    /\ LET tp == GetTargetPsf(mc[i], pshear, "gal_shear")
           ti == GetTargetImage(mc[i], tp.psf_interp, shear, dw)
       IN Finish("get_target_image", i, shear, "", FALSE,
                 Result(ti.status, << >>, sym_cache, obs[mc[i].obs], << >>,
                        NoArray, tp.psf_interp, ti.image))

\* mc.get_sheared_image_interp_nopsf(shear) called directly; the model
\* returned is recorded as the call's psf_interp
CallGetShearedImageInterpNopsf(i, shear) ==
    /\ mc[i].built /\ ncalls < MaxCalls
    /\ LET si == GetShearedImageInterpNopsf(mc[i], shear)
       IN Finish("get_sheared_image_interp_nopsf", i, shear, "", FALSE,
                 Result(si.status, << >>, sym_cache, obs[mc[i].obs], << >>,
                        NoArray, si.model, NoArray))

\* mc._symmetrize_noise(type, image_in, psf_target_interp, shear) called
\* directly on the instance's galsim image and the psf model
\* get_target_psf(pshear, 'gal_shear') returned
CallSymmetrizeNoise(i, type, pshear, shear, ds) ==
    /\ mc[i].built /\ ncalls < MaxCalls
    /\ LET tp == GetTargetPsf(mc[i], pshear, "gal_shear")
           sn == SymmetrizeNoise(mc[i], sym_cache, type, mc[i].gs_image,
                                 tp.psf_interp, shear, ds)
       IN Finish("_symmetrize_noise", i, shear, type, FALSE,
                 Result(sn.status, << >>, sn.cache, obs[mc[i].obs],
                        Events(sn.ev), NoArray, tp.psf_interp, sn.image))

PsfTypes == {"gal_shear", "psf_shear", "dilate"}

SymTypes == {"gal", "psf", "noise"}

\* the realisations a call can see: the whitening generator is consulted
\* only when whitening without a fixed seed, the synthetic noise of the
\* symmetrization only when the key is not cached
WhiteDraws(m) == IF m.whiten /\ ~m.same_seed THEN Draws ELSE {1}

SymDraws(m, type, shear) ==
    LET sh == GetSymmetrizeShapes(type, shear)
    IN IF sh.status = "ok"
          /\ ~CacheHit(sym_cache,
                       GetSymmetrizeKey(sh.g1, sh.g2, sh.g1psf, sh.g2psf,
                                        m.gs_image.rows, m.gs_image.cols))
       THEN Draws ELSE {1}

Next ==
    \/ \E i \in Inst, sd \in Draws : \E su \in Setups(i) :
          Construct(i, su[1], su[2].symmetrize, su[2].whiten,
                    su[2].same_seed, sd)
    \/ \E i \in Inst, shear \in ShearArgs, gu \in BOOLEAN :
          \E dw1 \in WhiteDraws(mc[i]),
             ds1 \in IF mc[i].symmetrize THEN SymDraws(mc[i], "gal", shear)
                     ELSE {1} :
          \E dw2 \in IF gu THEN WhiteDraws(mc[i]) ELSE {1},
             ds2 \in IF gu THEN SymDraws(mc[i], "gal", Shape(0, 0)) ELSE {1} :
          CallGetObsGalshear(i, shear, gu, dw1, ds1, dw2, ds2)
    \/ \E i \in Inst, shear \in ShearArgs :
          \E dw \in WhiteDraws(mc[i]),
             ds \in IF mc[i].symmetrize
                    THEN SymDraws(mc[i], "gal", Shape(0, 0)) ELSE {1} :
          CallGetObsDilatedOnly(i, shear, dw, ds)
    \/ \E i \in Inst, shear \in ShearArgs :
          \E dw \in WhiteDraws(mc[i]),
             ds \in IF mc[i].symmetrize THEN SymDraws(mc[i], "psf", shear)
                    ELSE {1} :
          CallGetObsPsfshear(i, shear, dw, ds)

\* the methods the public operations are built from, called directly on
\* instance 1
DirectInst == {1}

NextDirect ==
    \/ \E i \in DirectInst, shear \in ShearArgs, type \in PsfTypes :
          CallGetTargetPsf(i, shear, type)
    \/ \E i \in DirectInst, shear \in ShearArgs \cup {NoneShear} :
          \E dw \in WhiteDraws(mc[i]) :
          CallGetTargetImage(i, Shape(1, -2), shear, dw)
    \/ \E i \in DirectInst, shear \in ShearArgs :
          CallGetShearedImageInterpNopsf(i, shear)
    \/ \E i \in DirectInst, type \in SymTypes, pshear \in Shapes,
          shear \in {Shape(1, -2), PlainPair} :
          \E ds \in SymDraws(mc[i], type, shear) :
          CallSymmetrizeNoise(i, type, pshear, shear, ds)

NextAll == Next \/ NextDirect

\* ------------------------------------------------------ concurrent runs
\* Each instance runs in a thread of its own; the threads share
\* Metacal.sym_cache.  A thread calls _symmetrize_noise on its instance's
\* galsim image and runs to the cache test (line 259); on a miss it goes on
\* to line 263 while the other thread runs.  No statement of the method
\* takes a lock.
ThreadTypes == {"gal", "psf"}

Begin(i, type, shear) ==
    /\ mc[i].built /\ ncalls < MaxCalls
    /\ th[i].pc = "idle"
    /\ LET m   == mc[i]
           tp  == GetTargetPsf(m, shear, "gal_shear")
           sh  == GetSymmetrizeShapes(type, shear)
           key == GetSymmetrizeKey(sh.g1, sh.g2, sh.g1psf, sh.g2psf,
                                   m.gs_image.rows, m.gs_image.cols)
           hit == SymmetrizeHit(sym_cache, type, sh, key, m.gs_image)
       IN IF CacheHit(sym_cache, key)
          THEN /\ ret' = Call("_symmetrize_noise", i, m.obs, shear, type,
                              FALSE,
                              Result("ok", << >>, sym_cache, obs[m.obs],
                                     Events(hit.ev), NoArray, tp.psf_interp,
                                     hit.image))
               /\ applied' = applied \cup Applications(Events(hit.ev))
               /\ th' = th
          ELSE /\ th' = [th EXCEPT ![i] =
                            [pc |-> "miss", op |-> "_symmetrize_noise",
                             shear |-> shear, type |-> type, key |-> key,
                             sh |-> sh, image_in |-> m.gs_image,
                             psf_image |-> tp.psf_image,
                             psf_interp |-> tp.psf_interp]]
               /\ UNCHANGED <<ret, applied>>
    /\ ncalls' = ncalls + 1
    /\ UNCHANGED <<obs, mc, sym_cache, est, self_obs, self_kobs>>

\* the thread of instance i goes on after its miss
Miss(i, ds) ==
    /\ th[i].pc = "miss"
    /\ LET m  == mc[i]
           t  == th[i]
           sn == SymmetrizeMiss(m, sym_cache, t.type, t.sh, t.key,
                                t.image_in, t.psf_interp, ds)
       IN /\ sym_cache' = sn.cache
          /\ ret' = Call(t.op, i, m.obs, t.shear, t.type, FALSE,
                         Result(sn.status, << >>, sn.cache, obs[m.obs],
                                Events(sn.ev), NoArray, t.psf_interp,
                                sn.image))
          /\ applied' = applied \cup Applications(Events(sn.ev))
    /\ th' = [th EXCEPT ![i] = Idle]
    /\ UNCHANGED <<obs, mc, ncalls, est, self_obs, self_kobs>>

NextConc ==
    \/ \E i \in Inst, sd \in Draws : \E su \in Setups(i) :
          Construct(i, su[1], su[2].symmetrize, su[2].whiten,
                    su[2].same_seed, sd)
    \/ \E i \in Inst, type \in ThreadTypes, shear \in Shapes :
          Begin(i, type, shear)
    \/ \E i \in Inst, ds \in Draws : Miss(i, ds)

Spec == Init /\ [][Next]_vars

SpecConc == Init /\ [][NextConc]_vars

SpecAll == Init /\ [][NextAll]_vars

\* ------------------------------------------------ numbers of the estimators
\* The estimator arrays hold floats.  The model computes with exact
\* fractions [n, d] in lowest terms with d > 0, vectors <<x, y>> and 2x2
\* matrices <<<<a, b>>, <<c, d>>>>.  A square root is carried by its square:
\* a surd [ssq |-> q] is the number v with v*|v| = q.
RECURSIVE Gcd(_, _)
Gcd(a, b) == IF b = 0 THEN a ELSE Gcd(b, a % b)

Frac(n, d) ==
    LET s == IF d < 0 THEN -1 ELSE 1
        c == Gcd(Abs(n), Abs(d))
    IN [n |-> (s * n) \div c, d |-> (s * d) \div c]

Num(k) == [n |-> k, d |-> 1]

\* sums and products cancel common factors before they multiply
FAdd(x, y) ==
    LET c == Gcd(x.d, y.d)
    IN Frac(x.n * (y.d \div c) + y.n * (x.d \div c), (x.d \div c) * y.d)

FSub(x, y) == FAdd(x, [n |-> -y.n, d |-> y.d])

FMul(x, y) ==
    LET c1 == Gcd(Abs(x.n), y.d)
        c2 == Gcd(Abs(y.n), x.d)
    IN IF x.n = 0 \/ y.n = 0 THEN [n |-> 0, d |-> 1]
       ELSE [n |-> (x.n \div c1) * (y.n \div c2),
             d |-> (x.d \div c2) * (y.d \div c1)]

\* x / y for y # 0
FDiv(x, y) ==
    FMul(x, IF y.n < 0 THEN [n |-> -y.d, d |-> -y.n]
            ELSE [n |-> y.d, d |-> y.n])

FAbs(x) == [n |-> Abs(x.n), d |-> x.d]

VZero == <<Num(0), Num(0)>>

MZero == <<VZero, VZero>>

VAdd(u, v) == <<FAdd(u[1], v[1]), FAdd(u[2], v[2])>>

VSub(u, v) == <<FSub(u[1], v[1]), FSub(u[2], v[2])>>

\* componentwise product, and array / scalar
VMul(u, v) == <<FMul(u[1], v[1]), FMul(u[2], v[2])>>

VScale(c, v) == <<FMul(c, v[1]), FMul(c, v[2])>>

MAdd(a, b) == <<VAdd(a[1], b[1]), VAdd(a[2], b[2])>>

MSub(a, b) == <<VSub(a[1], b[1]), VSub(a[2], b[2])>>

MScale(c, a) == <<VScale(c, a[1]), VScale(c, a[2])>>

\* numpy.dot(matrix, vector)
Dot(a, v) ==
    <<FAdd(FMul(a[1][1], v[1]), FMul(a[1][2], v[2])),
      FAdd(FMul(a[2][1], v[1]), FMul(a[2][2], v[2]))>>

Det(a) == FSub(FMul(a[1][1], a[2][2]), FMul(a[1][2], a[2][1]))

\* the inverse of a matrix of non-zero determinant
Inverse(a) ==
    MScale(FDiv(Num(1), Det(a)),
           <<<<a[2][2], FSub(Num(0), a[1][2])>>,
             <<FSub(Num(0), a[2][1]), a[1][1]>>>>)

\* the rows of a in the order partial pivoting leaves them: the row with
\* the first entry of larger magnitude on top, the first row on a tie
PivotRows(a) ==
    IF Abs(a[2][1].n) * a[1][1].d > Abs(a[1][1].n) * a[2][1].d
    THEN <<a[2], a[1]>> ELSE a

RECURSIVE PowerOfTwo(_)
PowerOfTwo(k) == k = 1 \/ (k > 1 /\ k % 2 = 0 /\ PowerOfTwo(k \div 2))

\* x is held exactly by a float: its denominator is a power of two (the
\* numerators of the model are small)
Dyadic(x) == PowerOfTwo(x.d)

\* the elimination of the second row by the first runs without rounding:
\* the entries are held exactly and so is the reciprocal of the pivot
ExactElimination(lu) ==
    /\ \A r, c \in 1..2 : Dyadic(lu[r][c])
    /\ PowerOfTwo(Abs(lu[1][1].n))

\* variant of Inv: a singular matrix yields the zero matrix, no error
InvLenient(a, residue) ==
    IF Det(a) = Num(0) THEN [status |-> "ok", m |-> MZero]
    ELSE [status |-> "ok", m |-> Inverse(a)]

\* numpy.linalg.inv(a): LAPACK's LU factorisation with partial pivoting.
\* LinAlgError is raised when a pivot is exactly zero in floating point:
\* when the first column is zero, or when the second pivot
\* a22 - (a21/a11)*a12 comes out as 0.0.  For a matrix of non-zero
\* determinant the model returns the exact inverse.  For a singular
\* matrix the second pivot is zero when the elimination runs without
\* rounding; otherwise it is what the roundings leave, and residue tells
\* whether that is different from zero.  Then inv returns a matrix of
\* finite entries of the order of 1/residue, which the fractions of the
\* model do not carry: status "rounded".
Inv(a, residue) ==
    LET lu == PivotRows(a)
    IN IF lu[1][1] = Num(0) THEN [status |-> "LinAlgError", m |-> MZero]
       ELSE IF Det(a) # Num(0) THEN [status |-> "ok", m |-> Inverse(a)]
       ELSE IF residue /\ ~ExactElimination(lu)
       THEN [status |-> "rounded", m |-> MZero]
       ELSE [status |-> "LinAlgError", m |-> MZero]

\* array.sum(axis=0) of an array of vectors / of matrices
RECURSIVE SumV(_)
SumV(rows) ==
    IF rows = << >> THEN VZero ELSE VAdd(rows[1], SumV(Tail(rows)))

RECURSIVE SumM(_)
SumM(mats) ==
    IF mats = << >> THEN MZero ELSE MAdd(mats[1], SumM(Tail(mats)))

\* the slice array[beg:end] (0-based, end exclusive, clipped to the array)
Slice(arr, beg, end) ==
    SubSeq(arr, beg + 1, IF end > Len(arr) THEN Len(arr) ELSE end)

\* array[rind]: the rows picked by the (0-based) indices rind
Take(arr, rind) == [k \in DOMAIN rind |-> arr[rind[k] + 1]]

\* sqrt(x) for a fraction x >= 0
Sqrt(x) == [ssq |-> x]

\* surd / surd (both positive), fraction * surd
SurdDiv(r, s) == [ssq |-> FDiv(r.ssq, s.ssq)]

SurdScale(c, r) == [ssq |-> FMul(FMul(c, FAbs(c)), r.ssq)]

\* numpy.dot(matrix, vector of surds): each component a sum of two surds
SurdDot(a, e) ==
    <<<<SurdScale(a[1][1], e[1]), SurdScale(a[1][2], e[2])>>,
      <<SurdScale(a[2][1], e[1]), SurdScale(a[2][2], e[2])>>>>

\* variant of Std: the root of the mean square, the mean not taken off
StdAboutZero(rows) ==
    LET n   == Num(Len(rows))
        sq  == [k \in DOMAIN rows |-> VMul(rows[k], rows[k])]
        var == VScale(FDiv(Num(1), n), SumV(sq))
    IN <<Sqrt(var[1]), Sqrt(var[2])>>

\* array.std(axis=0) of an array of vectors: the root of the mean squared
\* deviation from the mean (ddof = 0)
Std(rows) ==
    LET n    == Num(Len(rows))
        mean == VScale(FDiv(Num(1), n), SumV(rows))
        sq   == [k \in DOMAIN rows |->
                    VMul(VSub(rows[k], mean), VSub(rows[k], mean))]
        var  == VScale(FDiv(Num(1), n), SumV(sq))
    IN <<Sqrt(var[1]), Sqrt(var[2])>>

RECURSIVE SumF(_)
SumF(xs) == IF xs = << >> THEN Num(0) ELSE FAdd(xs[1], SumF(Tail(xs)))

\* ------------------------------------------------------- the estimators
\* the outcome of an estimator call: status ("ok" or the exception raised),
\* the entries of the returned dict that the model follows, and the
\* caller's arrays after the call (est)
NoEstimate ==
    [status |-> "", shear |-> VZero, shear_err |-> << >>,
     shear_cov |-> MZero, shears |-> << >>, shear_mean |-> VZero,
     g_mean |-> VZero, g_sum |-> VZero, R |-> MZero, R_sum |-> MZero,
     Rpsf |-> VZero, psf_corr |-> VZero, nuse |-> 0, wsum |-> Num(0),
     est |-> NoEnsemble]

EstRaised(status, e) == [NoEstimate EXCEPT !.status = status, !.est = e]

\* the call returns its dict, and the numbers in it derive from an inverse
\* that is the rounding residue of a singular matrix: they are not
\* represented
EstRounded(e) == [NoEstimate EXCEPT !.status = "rounded", !.est = e]

\* range(n)
Range(n) == [k \in 1..n |-> k - 1]

\* variant of GpsfCopyShares: psf_corr_arr = gpsf, one array under two names
GpsfCopySharesView == TRUE

\* psf_corr_arr = gpsf.copy(): the array scaled in place is a new array
GpsfCopyShares == FALSE

\* get_mean_shear(g, gpsf, R, Rpsf) on the arrays of ensemble e
GetMeanShear(e) ==
    LET ng        == Num(Len(e.g))
        g_sum     == SumV(e.g)
        sd        == Std(e.g)
        g_err     == <<SurdDiv(sd[1], Sqrt(ng)), SurdDiv(sd[2], Sqrt(ng))>>
        g_mean    == VScale(FDiv(Num(1), ng), g_sum)
        R_sum     == SumM(e.R)
        R_mean    == MScale(FDiv(Num(1), Num(Len(e.R))), R_sum)
        Rpsf_sum  == SumV(e.Rpsf)
        Rpsf_mean == VScale(FDiv(Num(1), Num(Len(e.Rpsf))), Rpsf_sum)
        psf_corr_arr == [k \in DOMAIN e.gpsf |-> VMul(e.gpsf[k], Rpsf_mean)]
        psf_corr  == VScale(FDiv(Num(1), ng), SumV(psf_corr_arr))
        Rinv      == Inv(R_mean, e.residue)
    IN IF Rinv.status = "LinAlgError" THEN EstRaised(Rinv.status, e)
       ELSE IF Rinv.status = "rounded" THEN EstRounded(e)
       ELSE [NoEstimate EXCEPT
                !.status    = "ok",
                !.shear     = Dot(Rinv.m, VSub(g_mean, psf_corr)),
                !.shear_err = SurdDot(Rinv.m, g_err),
                !.g_mean    = g_mean,
                !.g_sum     = g_sum,
                !.R         = R_mean,
                !.R_sum     = R_sum,
                !.Rpsf      = Rpsf_mean,
                !.psf_corr  = psf_corr,
                !.nuse      = Len(e.g),
                !.est       = IF GpsfCopyShares
                              THEN [e EXCEPT !.gpsf = psf_corr_arr]
                              ELSE e]

\* variant of JackknifeCov: fac = 1
JackknifeCovUnscaled(shear, shears, nchunks) ==
    LET d(i) == VSub(shear, shears[i])
        c00  == SumF([i \in DOMAIN shears |-> FMul(d(i)[1], d(i)[1])])
        c01  == SumF([i \in DOMAIN shears |-> FMul(d(i)[1], d(i)[2])])
        c11  == SumF([i \in DOMAIN shears |-> FMul(d(i)[2], d(i)[2])])
    IN <<<<c00, c01>>, <<c01, c11>>>>

\* variant of JackknifeCov: fac = (nchunks-2)/float(nchunks)
JackknifeCovShifted(shear, shears, nchunks) ==
    LET fac  == Frac(nchunks - 2, nchunks)
        d(i) == VSub(shear, shears[i])
        c00  == FMul(fac, SumF([i \in DOMAIN shears |-> FMul(d(i)[1], d(i)[1])]))
        c01  == FMul(fac, SumF([i \in DOMAIN shears |-> FMul(d(i)[1], d(i)[2])]))
        c11  == FMul(fac, SumF([i \in DOMAIN shears |-> FMul(d(i)[2], d(i)[2])]))
    IN <<<<c00, c01>>, <<c01, c11>>>>

\* the covariance of jackknife_shear and jackknife_shear_weighted:
\* fac = (nchunks-1)/float(nchunks) times the sums of products of
\* (shear - shears[i]); nchunks > 0
JackknifeCov(shear, shears, nchunks) ==
    LET fac  == Frac(nchunks - 1, nchunks)
        d(i) == VSub(shear, shears[i])
        c00  == FMul(fac, SumF([i \in DOMAIN shears |-> FMul(d(i)[1], d(i)[1])]))
        c01  == FMul(fac, SumF([i \in DOMAIN shears |-> FMul(d(i)[1], d(i)[2])]))
        c11  == FMul(fac, SumF([i \in DOMAIN shears |-> FMul(d(i)[2], d(i)[2])]))
    IN <<<<c00, c01>>, <<c01, c11>>>>

\* variant of NChunks: a trailing partial chunk counts as a chunk
NChunksRoundedUp(ntot, chunksize) == (ntot + chunksize - 1) \div chunksize

\* nchunks = ntot/chunksize, the integer division of Python 2
NChunks(ntot, chunksize) == ntot \div chunksize

\* the state of a jackknife loop: status ("ok"; "rounded" once an inverse
\* came back rounded; "LinAlgError" once an inversion raised, after which
\* no iteration runs), the array shears and the global sums
LoopState(status, nchunks, g_sum, R_sum) ==
    [status |-> status, shears |-> [k \in 1..nchunks |-> VZero],
     g_sum |-> g_sum, R_sum |-> R_sum]

\* the loop status after an inversion that ended with status inv
LoopStatus(st, inv) ==
    IF inv = "LinAlgError" \/ st = "LinAlgError" THEN "LinAlgError"
    ELSE IF inv = "rounded" THEN "rounded" ELSE st

\* variant of JackknifeIter: the leave-out sum of the shapes is formed in
\* place, g_sum -= tgsum
JackknifeIterInPlace(st, e, has_Rpsf, chunksize, i) ==
    LET beg     == i * chunksize
        end     == (i + 1) * chunksize
        tgsum   == IF has_Rpsf
                   THEN VSub(SumV(Slice(e.g, beg, end)),
                             SumV(Slice(e.Rpsf, beg, end)))
                   ELSE SumV(Slice(e.g, beg, end))
        tR_sum  == SumM(Slice(e.R, beg, end))
        j_g_sum == VSub(st.g_sum, tgsum)
        j_R_sum == MSub(st.R_sum, tR_sum)
        j_R_inv == Inv(j_R_sum, e.residue)
    IN IF st.status = "LinAlgError" THEN st
       ELSE IF j_R_inv.status = "LinAlgError"
       THEN [st EXCEPT !.status = "LinAlgError"]
       ELSE [st EXCEPT !.status = LoopStatus(st.status, j_R_inv.status),
                       !.shears[i + 1] = Dot(j_R_inv.m, j_g_sum),
                       !.g_sum = j_g_sum]

\* iteration i (0-based) of the loop of jackknife_shear: the sums of the
\* chunk are taken off the global sums, in new arrays, and shears[i] is
\* assigned
JackknifeIter(st, e, has_Rpsf, chunksize, i) ==
    LET beg     == i * chunksize
        end     == (i + 1) * chunksize
        tgsum   == IF has_Rpsf
                   THEN VSub(SumV(Slice(e.g, beg, end)),
                             SumV(Slice(e.Rpsf, beg, end)))
                   ELSE SumV(Slice(e.g, beg, end))
        tR_sum  == SumM(Slice(e.R, beg, end))
        j_g_sum == VSub(st.g_sum, tgsum)
        j_R_sum == MSub(st.R_sum, tR_sum)
        j_R_inv == Inv(j_R_sum, e.residue)
    IN IF st.status = "LinAlgError" THEN st
       ELSE IF j_R_inv.status = "LinAlgError"
       THEN [st EXCEPT !.status = "LinAlgError"]
       ELSE [st EXCEPT !.status = LoopStatus(st.status, j_R_inv.status),
                       !.shears[i + 1] = Dot(j_R_inv.m, j_g_sum)]

\* the loop of jackknife_shear run over the chunk indices in the sequence
\* order; the code runs it over range(nchunks)
RECURSIVE JackknifeLoop(_, _, _, _, _)
JackknifeLoop(st, e, has_Rpsf, chunksize, order) ==
    IF order = << >> THEN st
    ELSE JackknifeLoop(JackknifeIter(st, e, has_Rpsf, chunksize, Head(order)),
                       e, has_Rpsf, chunksize, Tail(order))

\* jackknife_shear up to its loop: the global sums and the inverse of
\* R_sum
JackknifeStart(e, has_Rpsf, chunksize) ==
    LET g_sum == IF has_Rpsf THEN VSub(SumV(e.g), SumV(e.Rpsf))
                 ELSE SumV(e.g)
        R_sum == SumM(e.R)
    IN LoopState(Inv(R_sum, e.residue).status,
                 NChunks(Len(e.g), chunksize), g_sum, R_sum)

\* the end of a jackknife: the covariance and the dict returned
JackknifeResult(e, st, shear, nchunks) ==
    IF st.status = "LinAlgError" THEN EstRaised("LinAlgError", e)
    ELSE IF nchunks = 0 THEN EstRaised("ZeroDivisionError", e)
    ELSE IF st.status = "rounded" THEN EstRounded(e)
    ELSE [NoEstimate EXCEPT
             !.status    = "ok",
             !.shear     = shear,
             !.shear_cov = JackknifeCov(shear, st.shears, nchunks),
             !.shears    = st.shears,
             !.g_sum     = st.g_sum,
             !.R_sum     = st.R_sum,
             !.nuse      = Len(e.g),
             !.est       = e]

\* jackknife_shear(g, R, Rpsf, chunksize) on the arrays of ensemble e;
\* has_Rpsf tells whether Rpsf is passed (else it is None)
JackknifeShear(e, has_Rpsf, chunksize) ==
    LET nchunks   == NChunks(Len(e.g), chunksize)
        st0       == JackknifeStart(e, has_Rpsf, chunksize)
        R_sum_inv == Inv(st0.R_sum, e.residue)
        shear     == Dot(R_sum_inv.m, st0.g_sum)
        st        == JackknifeLoop(st0, e, has_Rpsf, chunksize, Range(nchunks))
    IN JackknifeResult(e, st, shear, nchunks)

\* variant of DefaultWeights: the weights grow with the index
DefaultWeightsRamp(n) == [k \in 1..n |-> Num(k)]

\* ones(g.shape[0])
DefaultWeights(n) == [k \in 1..n |-> Num(1)]

\* array * weights[:, newaxis] and array * weights[:, newaxis, newaxis]
WeightedV(rows, w) == [k \in DOMAIN rows |-> VScale(w[k], rows[k])]

WeightedM(mats, w) == [k \in DOMAIN mats |-> MScale(w[k], mats[k])]

\* iteration i (0-based) of the loop of jackknife_shear_weighted
JackknifeWeightedIter(st, e, weights, chunksize, i) ==
    LET beg         == i * chunksize
        end         == (i + 1) * chunksize
        tgsum       == SumV(WeightedV(Slice(e.g, beg, end),
                                      Slice(weights, beg, end)))
        tgsens_sum  == SumM(WeightedM(Slice(e.R, beg, end),
                                      Slice(weights, beg, end)))
        j_g_sum     == VSub(st.g_sum, tgsum)
        j_gsens_sum == MSub(st.R_sum, tgsens_sum)
        j_gsens_inv == Inv(j_gsens_sum, e.residue)
    IN IF st.status = "LinAlgError" THEN st
       ELSE IF j_gsens_inv.status = "LinAlgError"
       THEN [st EXCEPT !.status = "LinAlgError"]
       ELSE [st EXCEPT !.status = LoopStatus(st.status, j_gsens_inv.status),
                       !.shears[i + 1] = Dot(j_gsens_inv.m, j_g_sum)]

\* the loop of jackknife_shear_weighted run over the chunk indices in the
\* sequence order; the code runs it over range(nchunks)
RECURSIVE JackknifeWeightedLoop(_, _, _, _, _)
JackknifeWeightedLoop(st, e, weights, chunksize, order) ==
    IF order = << >> THEN st
    ELSE JackknifeWeightedLoop(
             JackknifeWeightedIter(st, e, weights, chunksize, Head(order)),
             e, weights, chunksize, Tail(order))

\* jackknife_shear_weighted up to its loop: the weighted global sums (in
\* R_sum the sum of gsens) and the inverse of gsens_sum
JackknifeWeightedStart(e, weights, chunksize) ==
    LET g_sum     == SumV(WeightedV(e.g, weights))
        gsens_sum == SumM(WeightedM(e.R, weights))
    IN LoopState(Inv(gsens_sum, e.residue).status,
                 NChunks(Len(e.g), chunksize), g_sum, gsens_sum)

\* jackknife_shear_weighted(g, gsens, weights, chunksize) on the arrays of
\* ensemble e (gsens is e.R); has_weights tells whether weights is passed
\* (else it is None)
JackknifeShearWeighted(e, has_weights, chunksize) ==
    LET weights   == IF has_weights THEN e.weights
                     ELSE DefaultWeights(Len(e.g))
        nchunks   == NChunks(Len(e.g), chunksize)
        st0       == JackknifeWeightedStart(e, weights, chunksize)
        gsens_sum_inv == Inv(st0.R_sum, e.residue)
        shear     == Dot(gsens_sum_inv.m, st0.g_sum)
        st        == JackknifeWeightedLoop(st0, e, weights, chunksize,
                                           Range(nchunks))
        r         == JackknifeResult(e, st, shear, nchunks)
    IN IF r.status = "ok" THEN [r EXCEPT !.wsum = SumF(weights)] ELSE r

\* variant of Resample: the responses are not resampled
ResampleShapesOnly(e, g_rind, R_rind) ==
    [e EXCEPT !.g = Take(e.g, g_rind), !.gpsf = Take(e.gpsf, g_rind)]

\* the scratch arrays of one bootstrap iteration: g and gpsf at the indices
\* g_rind, R and Rpsf at the indices R_rind
Resample(e, g_rind, R_rind) ==
    [e EXCEPT !.g = Take(e.g, g_rind), !.gpsf = Take(e.gpsf, g_rind),
              !.R = Take(e.R, R_rind), !.Rpsf = Take(e.Rpsf, R_rind)]

\* the covariance of bootstrap_shear: fac = 1/(nboot-1) times the sums of
\* products of (shear - shears[i]); nboot > 1
BootstrapCov(shear, shears, nboot) ==
    LET fac  == Frac(1, nboot - 1)
        d(i) == VSub(shear, shears[i])
        c00  == FMul(fac, SumF([i \in DOMAIN shears |-> FMul(d(i)[1], d(i)[1])]))
        c01  == FMul(fac, SumF([i \in DOMAIN shears |-> FMul(d(i)[1], d(i)[2])]))
        c11  == FMul(fac, SumF([i \in DOMAIN shears |-> FMul(d(i)[2], d(i)[2])]))
    IN <<<<c00, c01>>, <<c01, c11>>>>

\* the end of bootstrap_shear: the covariance of the recorded shears and
\* the entries added to the dict res
BootstrapResult(res, shears, nboot) ==
    LET shear_cov  == BootstrapCov(res.shear, shears, nboot)
        shear_mean == VScale(FDiv(Num(1), Num(nboot)), SumV(shears))
    IN [res EXCEPT
           !.shear_mean = shear_mean,
           !.shear_err  = <<<<Sqrt(shear_cov[1][1])>>,
                            <<Sqrt(shear_cov[2][2])>>>>,
           !.shear_cov  = shear_cov,
           !.shears     = shears]

\* shears[i,:] = tres['shear'] in iteration i (0-based), tres the
\* get_mean_shear estimate of the scratch arrays; after an inversion that
\* raised no iteration runs
BootstrapRecord(st, i, tres) ==
    IF st.status = "LinAlgError" THEN st
    ELSE IF tres.status = "LinAlgError"
    THEN [st EXCEPT !.status = "LinAlgError"]
    ELSE [st EXCEPT !.status = LoopStatus(st.status, tres.status),
                    !.shears[i + 1] = tres.shear]

\* iteration i (0-based) of the loop of bootstrap_shear: the scratch
\* arrays are filled at the indices drawn in this iteration and shears[i]
\* is the get_mean_shear estimate of them
BootstrapIter(st, e, g_rinds, R_rinds, i) ==
    BootstrapRecord(st, i,
        GetMeanShear(Resample(e, g_rinds[i + 1], R_rinds[i + 1])))

\* the loop of bootstrap_shear run over the iterations in the sequence
\* order; the code runs it over range(nboot)
RECURSIVE BootstrapLoop(_, _, _, _, _)
BootstrapLoop(st, e, g_rinds, R_rinds, order) ==
    IF order = << >> THEN st
    ELSE BootstrapLoop(BootstrapIter(st, e, g_rinds, R_rinds, Head(order)),
                       e, g_rinds, R_rinds, Tail(order))

\* bootstrap_shear up to its loop: the estimate of the arrays as given
\* and shears = zeros((nboot, 2)); the loop keeps no sums
BootstrapStart(e, nboot) ==
    LoopState(GetMeanShear(e).status, nboot, VZero, MZero)

\* the end of bootstrap_shear, with res the estimate of the arrays as
\* given and st the loop state: an inversion that raised leaves the
\* function, fac = 1.0/(nboot-1.0) divides by zero for nboot = 1
BootstrapEnd(e, res, st, nboot) ==
    IF res.status = "LinAlgError" THEN EstRaised(res.status, e)
    ELSE IF st.status = "LinAlgError" THEN EstRaised("LinAlgError", e)
    ELSE IF nboot = 1 THEN EstRaised("ZeroDivisionError", e)
    ELSE IF st.status = "rounded" THEN EstRounded(e)
    ELSE BootstrapResult(res, st.shears, nboot)

\* bootstrap_shear(g, gpsf, R, Rpsf, nboot) on the arrays of ensemble e;
\* g_rinds[i] and R_rinds[i] are the index arrays numpy.random.randint
\* returns in iteration i
BootstrapShear(e, nboot, g_rinds, R_rinds) ==
    BootstrapEnd(e, GetMeanShear(e),
                 BootstrapLoop(BootstrapStart(e, nboot), e, g_rinds, R_rinds,
                               Range(nboot)),
                 nboot)

\* ------------------------------------------- estimator calls: the state
\* the measurement ensembles tried: shapes and responses from small sets,
\* among the responses a singular and the zero matrix; shape and response
\* ensembles of one size (1 to 3 objects) or of sizes 2 and 1; the psf
\* shapes, psf responses and weights are either trivial (zero psf terms,
\* unit weights) or vary with the object.  Ensembles of one or two objects
\* are also tried with the singular response RSkew.
\* The field residue of an ensemble tells how its singular sums eliminate
\* in IEEE double arithmetic.  The singular sums of RMats are multiples of
\* the all-ones matrix up to 4/1: the rows are equal, the multiplier is 1
\* and the second pivot is exactly zero.  Those of RSkewMats are multiples
\* of RSkew up to 3/1: the multiplier 1/49 is rounded, fl(1/49)*49 is not
\* 1, and the second pivot is a residue of the order of 1e-16, whether
\* the multiplier is formed by a division or by a reciprocal and whether
\* or not the update is fused.
SizePairs == {<<1, 1>>, <<2, 2>>, <<3, 3>>, <<2, 1>>, <<1, 2>>}

GRows == {<<Num(1), Num(0)>>, <<Num(-1), Num(2)>>}

RMats == {<<<<Num(1), Num(0)>>, <<Num(0), Num(1)>>>>,
          <<<<Num(1), Num(1)>>, <<Num(1), Num(1)>>>>,
          MZero}

RSkew == <<<<Num(49), Num(49)>>, <<Num(1), Num(1)>>>>

RSkewMats == {<<<<Num(1), Num(0)>>, <<Num(0), Num(1)>>>>, RSkew}

SkewSizes == {1, 2}

Ensemble(g, R, varied) ==
    [g       |-> g,
     gpsf    |-> [k \in DOMAIN g |->
                     IF varied THEN <<Num(k), Num(1)>> ELSE VZero],
     R       |-> R,
     Rpsf    |-> [k \in DOMAIN R |->
                     IF varied THEN <<Num(1), Num(-k)>> ELSE VZero],
     weights |-> [k \in DOMAIN g |->
                     IF varied /\ k = 1 THEN Num(2) ELSE Num(1)],
     residue |-> \E k \in DOMAIN R : R[k] = RSkew]

Ensembles ==
    UNION {{Ensemble(g, R, varied) :
               g \in [1..sz[1] -> GRows], R \in [1..sz[2] -> RMats],
               varied \in BOOLEAN} : sz \in SizePairs}
      \cup UNION {{Ensemble(g, R, varied) :
                      g \in [1..n -> GRows], R \in [1..n -> RSkewMats],
                      varied \in BOOLEAN} : n \in SkewSizes}

\* the index arrays numpy.random.randint(0, n, n) is taken to return: the
\* one in order, one with a repeated index and, for n = 2, a constant one
Rinds(n) ==
    {[k \in 1..n |-> k - 1], [k \in 1..n |-> IF k = 2 THEN 0 ELSE k - 1]}
       \cup (IF n = 2 THEN {[k \in 1..n |-> 1]} ELSE {})

ChunkSizes == 1..4

NBoots == {1, 2}

\* an estimator call: the function, its arguments beyond the arrays, the
\* index arrays drawn, and its outcome
EstCall(op, has_Rpsf, has_weights, chunksize, nboot, g_rinds, R_rinds, res) ==
    [op |-> op, has_Rpsf |-> has_Rpsf, has_weights |-> has_weights,
     chunksize |-> chunksize, nboot |-> nboot, g_rinds |-> g_rinds,
     R_rinds |-> R_rinds, res |-> [res EXCEPT !.est = NoEnsemble]]

InitEst ==
    /\ obs = InputObs
    /\ mc = [i \in Inst |-> NoMetacal]
    /\ sym_cache = << >>
    /\ ret = NoCall
    /\ applied = {}
    /\ ncalls = 0
    /\ th = [i \in Inst |-> Idle]
    /\ est \in Ensembles
    /\ self_obs = NoObject
    /\ self_kobs = NoObject

\* the effect of an estimator call.  The estimators are functions of their
\* arguments: a behaviour applies one of them, once, to its ensemble.
FinishEst(call, r) ==
    /\ ncalls = 0
    /\ ncalls' = 1
    /\ ret' = call
    /\ est' = r.est
    /\ UNCHANGED <<obs, mc, sym_cache, applied, th, self_obs, self_kobs>>

CallGetMeanShear ==
    LET r == GetMeanShear(est)
    IN FinishEst(EstCall("get_mean_shear", TRUE, FALSE, 0, 0, << >>, << >>, r), r)

CallJackknifeShear(has_Rpsf, chunksize) ==
    /\ Len(est.R) = Len(est.g)
    /\ LET r == JackknifeShear(est, has_Rpsf, chunksize)
       IN FinishEst(EstCall("jackknife_shear", has_Rpsf, FALSE, chunksize, 0,
                            << >>, << >>, r), r)

CallJackknifeShearWeighted(has_weights, chunksize) ==
    /\ Len(est.R) = Len(est.g)
    /\ LET r == JackknifeShearWeighted(est, has_weights, chunksize)
       IN FinishEst(EstCall("jackknife_shear_weighted", FALSE, has_weights,
                            chunksize, 0, << >>, << >>, r), r)

CallBootstrapShear(nboot, g_rinds, R_rinds) ==
    LET r == BootstrapShear(est, nboot, g_rinds, R_rinds)
    IN FinishEst(EstCall("bootstrap_shear", TRUE, FALSE, 0, nboot, g_rinds,
                         R_rinds, r), r)

NextEst ==
    \/ CallGetMeanShear
    \/ \E has_Rpsf \in BOOLEAN, chunksize \in ChunkSizes :
          CallJackknifeShear(has_Rpsf, chunksize)
    \/ \E has_weights \in BOOLEAN, chunksize \in ChunkSizes :
          CallJackknifeShearWeighted(has_weights, chunksize)
    \/ \E nboot \in NBoots :
          \E g_rinds \in [1..nboot -> Rinds(Len(est.g))],
             R_rinds \in [1..nboot -> Rinds(Len(est.R))] :
             CallBootstrapShear(nboot, g_rinds, R_rinds)

SpecEst == InitEst /\ [][NextEst]_vars

\* ------------------------------------------------- the Observation setters
\* Python values handed to the setters: None, numpy arrays (shape, content
\* label, dtype), GMix objects, Observations used as psf, and an object of
\* some other type
None == [type |-> "NoneType"]

NdArray(shape, data, dtype) ==
    [type |-> "ndarray", shape |-> shape, data |-> data, dtype |-> dtype]

\* numpy.zeros(shape) + 1.0
Ones(shape) == NdArray(shape, "ones", "f8")

\* numpy.ascontiguousarray(a, dtype=dtype); dtype "" when none is asked for.
\* None turns into a one-element array.
AsContiguousArray(a, dtype) ==
    IF a.type = "NoneType"
    THEN NdArray(<<1>>, "None", IF dtype = "" THEN "O" ELSE dtype)
    ELSE [a EXCEPT !.dtype = IF dtype = "" THEN @ ELSE dtype]

GMixObj(name) == [type |-> "GMix", name |-> name, copy |-> FALSE]

ObsObj(name) == [type |-> "Observation", name |-> name]

Other(name) == [type |-> "other", name |-> name]

\* an Observation before __init__ has set any attribute; an absent
\* attribute has its has_ flag FALSE and None in its place
Blank ==
    [built      |-> TRUE,
     has_image  |-> FALSE, image    |-> None,
     weight     |-> None,  jacobian |-> NoJacobian,
     pixels     |-> None,
     has_bmask  |-> FALSE, bmask    |-> None,
     has_ormask |-> FALSE, ormask   |-> None,
     has_noise  |-> FALSE, noise    |-> None,
     has_gmix   |-> FALSE, gmix     |-> None,
     has_psf    |-> FALSE, psf      |-> None]

\* how a method ends: "ok" or the exception raised, and the object as the
\* method leaves it
Outcome(status, self) == [status |-> status, self |-> self]

\* Observation.update_pixels: make_pixels(image, weight, jacobian)
UpdatePixels(self) ==
    [self EXCEPT !.pixels = [type     |-> "pixels",
                             image    |-> self.image,
                             weight   |-> self.weight,
                             jacobian |-> self.jacobian]]

\* Observation.set_image
SetImage(self, image, update_pixels) ==
    LET im == AsContiguousArray(image, "f8")
    IN IF Len(im.shape) # 2 THEN Outcome("AssertionError", self)
       ELSE IF self.has_image /\ im.shape # self.image.shape
       THEN Outcome("AssertionError", self)
       ELSE IF update_pixels
       THEN Outcome("ok", UpdatePixels([self EXCEPT !.image = im,
                                                    !.has_image = TRUE]))
       ELSE Outcome("ok", [self EXCEPT !.image = im, !.has_image = TRUE])

\* Observation.set_weight
SetWeight(self, weight, update_pixels) ==
    LET w == IF weight.type # "NoneType"
             THEN AsContiguousArray(weight, "f8")
             ELSE Ones(self.image.shape)
    IN IF weight.type # "NoneType" /\ Len(w.shape) # 2
       THEN Outcome("AssertionError", self)
       ELSE IF weight.type # "NoneType" /\ w.shape # self.image.shape
       THEN Outcome("AssertionError", self)
       ELSE IF update_pixels
       THEN Outcome("ok", UpdatePixels([self EXCEPT !.weight = w]))
       ELSE Outcome("ok", [self EXCEPT !.weight = w])

\* Observation.set_bmask
SetBmask(self, bmask) ==
    IF bmask.type = "NoneType"
    THEN Outcome("ok", [self EXCEPT !.has_bmask = FALSE, !.bmask = None])
    ELSE IF Len(AsContiguousArray(bmask, "").shape) # 2
    THEN Outcome("AssertionError", self)
    ELSE IF AsContiguousArray(bmask, "").shape # self.image.shape
    THEN Outcome("AssertionError", self)
    ELSE Outcome("ok", [self EXCEPT !.has_bmask = TRUE,
                                    !.bmask = AsContiguousArray(bmask, "")])

\* Observation.set_ormask
SetOrmask(self, ormask) ==
    IF ormask.type = "NoneType"
    THEN Outcome("ok", [self EXCEPT !.has_ormask = FALSE, !.ormask = None])
    ELSE IF Len(AsContiguousArray(ormask, "").shape) # 2
    THEN Outcome("AssertionError", self)
    ELSE IF AsContiguousArray(ormask, "").shape # self.image.shape
    THEN Outcome("AssertionError", self)
    ELSE Outcome("ok", [self EXCEPT !.has_ormask = TRUE,
                                    !.ormask = AsContiguousArray(ormask, "")])

\* variant of SetNoise: the shape of the noise image is not compared
SetNoiseAnyShape(self, noise) ==
    IF noise.type = "NoneType"
    THEN Outcome("ok", [self EXCEPT !.has_noise = FALSE, !.noise = None])
    ELSE IF Len(AsContiguousArray(noise, "").shape) # 2
    THEN Outcome("AssertionError", self)
    ELSE Outcome("ok", [self EXCEPT !.has_noise = TRUE,
                                    !.noise = AsContiguousArray(noise, "")])

\* Observation.set_noise
SetNoise(self, noise) ==
    IF noise.type = "NoneType"
    THEN Outcome("ok", [self EXCEPT !.has_noise = FALSE, !.noise = None])
    ELSE IF Len(AsContiguousArray(noise, "").shape) # 2
    THEN Outcome("AssertionError", self)
    ELSE IF AsContiguousArray(noise, "").shape # self.image.shape
    THEN Outcome("AssertionError", self)
    ELSE Outcome("ok", [self EXCEPT !.has_noise = TRUE,
                                    !.noise = AsContiguousArray(noise, "")])

\* isinstance(jacobian, Jacobian)
IsJacobian(jacobian) == "dvdrow" \in DOMAIN jacobian

\* Observation.set_jacobian: None gives the unit jacobian at the canonical
\* centre, a Jacobian is copied, anything else is rejected
SetJacobian(self, jacobian, update_pixels) ==
    LET jac == IF jacobian = None
               THEN UnitJacobianAt(self.image.shape[1], self.image.shape[2])
               ELSE jacobian
    IN IF jacobian # None /\ ~IsJacobian(jacobian)
       THEN Outcome("AssertionError", self)
       ELSE IF update_pixels
       THEN Outcome("ok", UpdatePixels([self EXCEPT !.jacobian = jac]))
       ELSE Outcome("ok", [self EXCEPT !.jacobian = jac])

\* the jacobian property setter, obs.jacobian = jacobian
JacobianSetter(self, jacobian) == SetJacobian(self, jacobian, TRUE)

\* Observation.set_psf: the old psf is deleted, then the new one is
\* checked and stored
SetPsf(self, psf) ==
    LET deleted == [self EXCEPT !.has_psf = FALSE, !.psf = None]
    IN IF psf.type = "NoneType" THEN Outcome("ok", deleted)
       ELSE IF psf.type # "Observation"
       THEN Outcome("AssertionError", deleted)
       ELSE Outcome("ok", [deleted EXCEPT !.has_psf = TRUE, !.psf = psf])

\* GMix.copy(): another object with the same contents
GMixCopy(gmix) == [gmix EXCEPT !.copy = TRUE]

\* Observation.set_gmix: the old gmix is deleted, then the new one is
\* checked and a copy of it stored
SetGmix(self, gmix) ==
    LET deleted == [self EXCEPT !.has_gmix = FALSE, !.gmix = None]
    IN IF gmix.type = "NoneType" THEN Outcome("ok", deleted)
       ELSE IF gmix.type # "GMix"
       THEN Outcome("AssertionError", deleted)
       ELSE Outcome("ok", [deleted EXCEPT !.has_gmix = TRUE,
                                          !.gmix = GMixCopy(gmix)])

\* Observation.set_meta: None stands for an empty dict, anything else must
\* be a dict.  The metadata is not part of the modelled state.
SetMeta(self, meta) ==
    IF meta.type \in {"NoneType", "dict"} THEN Outcome("ok", self)
    ELSE Outcome("TypeError", self)

\* Observation.update_meta_data and KObservation.update_meta_data
UpdateMetaData(self, meta) ==
    IF meta.type = "dict" THEN Outcome("ok", self)
    ELSE Outcome("TypeError", self)

\* one setter call of Observation.__init__ on the object r leaves, unless
\* an earlier call raised
InitStep(r, op, arg) ==
    IF r.status # "ok" THEN r
    ELSE CASE op = "set_weight"   -> SetWeight(r.self, arg, FALSE)
           [] op = "set_jacobian" -> SetJacobian(r.self, arg, FALSE)
           [] op = "update_pixels" -> Outcome("ok", UpdatePixels(r.self))
           [] op = "set_meta"     -> SetMeta(r.self, arg)
           [] op = "set_bmask"    -> SetBmask(r.self, arg)
           [] op = "set_ormask"   -> SetOrmask(r.self, arg)
           [] op = "set_noise"    -> SetNoise(r.self, arg)
           [] op = "set_gmix"     -> SetGmix(r.self, arg)
           [] op = "set_psf"      -> SetPsf(r.self, arg)

\* Observation.__init__(image, weight, bmask, ormask, noise, jacobian,
\* gmix, psf, meta): the setters in the order of the constructor
ObservationInit(image, weight, bmask, ormask, noise, jacobian, gmix, psf, meta) ==
    LET r1 == SetImage(Blank, image, FALSE)
        r2 == InitStep(r1, "set_weight", weight)
        r3 == InitStep(r2, "set_jacobian", jacobian)
        r4 == InitStep(InitStep(r3, "update_pixels", None), "set_meta", meta)
        r5 == InitStep(r4, "set_bmask", bmask)
        r6 == InitStep(r5, "set_ormask", ormask)
        r7 == InitStep(r6, "set_noise", noise)
        r8 == InitStep(r7, "set_gmix", gmix)
    IN InitStep(r8, "set_psf", psf)

\* ------------------------------------------------ KObservation.set_psf
\* a galsim.Image in k space: array shape, scale and dtype
KImage(shape, scale, dtype) ==
    [type |-> "galsim.Image", shape |-> shape, scale |-> scale,
     dtype |-> dtype]

\* a KObservation passed as psf: its kimage
KObsObj(name, kimage) ==
    [type |-> "KObservation", name |-> name, kimage |-> kimage]

KBlank ==
    [built   |-> TRUE, kimage |-> None, weight |-> None,
     has_psf |-> FALSE, psf |-> None, jacobian |-> NoJacobian]

\* KObservation._set_image
KSetImage(self, kimage) ==
    IF kimage.type # "galsim.Image" THEN Outcome("ValueError", self)
    ELSE IF kimage.dtype # "complex128" THEN Outcome("ValueError", self)
    ELSE Outcome("ok", [self EXCEPT !.kimage = kimage])

\* KObservation._set_weight(None): kimage.real.copy(), set to 1.0
KSetWeightDefault(self) ==
    Outcome("ok", [self EXCEPT
                      !.weight = [self.kimage EXCEPT !.dtype = "float64"]])

\* KObservation._set_weight(weight): None gives the default; any other
\* weight must be a galsim.Image of the kimage's array shape
KSetWeight(self, weight) ==
    IF weight.type = "NoneType" THEN KSetWeightDefault(self)
    ELSE IF weight.type # "galsim.Image" THEN Outcome("AssertionError", self)
    ELSE IF weight.shape # self.kimage.shape THEN Outcome("ValueError", self)
    ELSE Outcome("ok", [self EXCEPT !.weight = weight])

\* KObservation.set_psf: the old psf is deleted, the type checked, the new
\* psf stored, and then its shape and scale compared with the kimage's
KSetPsf(self, psf) ==
    LET deleted == [self EXCEPT !.has_psf = FALSE, !.psf = None]
        stored  == [self EXCEPT !.has_psf = TRUE, !.psf = psf]
    IN IF psf.type = "NoneType" THEN Outcome("ok", deleted)
       ELSE IF psf.type # "KObservation"
       THEN Outcome("AssertionError", deleted)
       ELSE IF psf.kimage.shape # self.kimage.shape
       THEN Outcome("ValueError", stored)
       ELSE IF psf.kimage.scale # self.kimage.scale
       THEN Outcome("AssertionError", stored)
       ELSE Outcome("ok", stored)

\* KObservation._set_jacobian: a DiagonalJacobian of the image's scale at
\* the canonical centre, moved by half a pixel when dims[0] is even
KSetJacobian(self) ==
    LET dims == self.kimage.shape
        jac  == IF dims[1] % 2 = 0
                THEN Jac(self.kimage.scale, 0, 0, self.kimage.scale,
                         dims[1], dims[2])
                ELSE Jac(self.kimage.scale, 0, 0, self.kimage.scale,
                         dims[1] - 1, dims[2] - 1)
    IN Outcome("ok", [self EXCEPT !.jacobian = jac])

\* one call of KObservation.__init__ on the object r leaves, unless an
\* earlier call raised
KInitStep(r, op, arg) ==
    IF r.status # "ok" THEN r
    ELSE CASE op = "_set_weight"   -> KSetWeight(r.self, arg)
           [] op = "update_meta_data" ->
                 IF arg = None THEN r ELSE UpdateMetaData(r.self, arg)
           [] op = "set_psf"       -> KSetPsf(r.self, arg)
           [] op = "_set_jacobian" -> KSetJacobian(r.self)

\* KObservation.__init__(kimage, weight, psf, meta)
KObservationInit(kimage, weight, psf, meta) ==
    LET r1 == KSetImage(KBlank, kimage)
        r2 == KInitStep(r1, "_set_weight", weight)
        r3 == KInitStep(r2, "set_psf", psf)
    IN KInitStep(KInitStep(r3, "_set_jacobian", None),
                 "update_meta_data", meta)

\* ------------------------------------------- container calls: the state
\* A behaviour follows one container, an Observation or a KObservation,
\* from the call that constructs it.
\* The property setters of the other attributes (obs.image = x, ...) call
\* the set_ method with its defaults and are the same steps.
\* The arguments tried: two arrays of one shape, one of another shape and
\* one that is not 2d; a GMix object, a psf Observation and an object of
\* neither type; k images of two shapes and two scales
Arrays ==
    {NdArray(<<2, 2>>, "a", "f8"), NdArray(<<2, 2>>, "b", "i4"),
     NdArray(<<3, 2>>, "c", "f8"), NdArray(<<4>>, "d", "f8")}

ArrayArgs == Arrays \cup {None}

\* the masks and noise images tried
MaskArgs ==
    {None, NdArray(<<2, 2>>, "a", "f8"), NdArray(<<3, 2>>, "c", "f8"),
     NdArray(<<4>>, "d", "f8")}

\* the jacobians tried: None, a Jacobian of scale 2 centred on pixel
\* (0, 0), and an object that is no Jacobian
JacobianArgs == {None, Jac(2, 0, 0, 2, 0, 0), Other("tuple")}

GMixArgs == {None, GMixObj("gm1"), Other("dict")}

PsfArgs == {None, ObsObj("psf1"), Other("ndarray")}

KImages ==
    {KImage(<<2, 2>>, 1, "complex128"), KImage(<<3, 3>>, 1, "complex128"),
     KImage(<<2, 2>>, 1, "float64")}

\* the k-space weights tried: None, real images of the two shapes and an
\* array that is no galsim.Image
\* the metadata tried: None, a dict and a list
MetaArgs == {None, [type |-> "dict", name |-> "m1"], Other("list")}

KWeightArgs ==
    {None, KImage(<<2, 2>>, 1, "float64"), KImage(<<3, 3>>, 1, "float64"),
     Other("ndarray")}

KPsfArgs ==
    {None, Other("Observation"),
     KObsObj("kpsf1", KImage(<<2, 2>>, 1, "complex128")),
     KObsObj("kpsf2", KImage(<<2, 2>>, 1, "complex128")),
     KObsObj("kpsf3", KImage(<<3, 3>>, 1, "complex128")),
     KObsObj("kpsf4", KImage(<<2, 2>>, 2, "complex128"))}

\* a container call: the method, its argument, how it ended, and the
\* object as it was before the call
ObsCall(op, arg, status, before) ==
    [op |-> op, arg |-> arg, status |-> status, before |-> before]

InitObs ==
    /\ obs = InputObs
    /\ mc = [i \in Inst |-> NoMetacal]
    /\ sym_cache = << >>
    /\ ret = NoCall
    /\ applied = {}
    /\ ncalls = 0
    /\ th = [i \in Inst |-> Idle]
    /\ est = NoEnsemble
    /\ self_obs = NoObject
    /\ self_kobs = NoObject

\* the effect of a method of the Observation: the object is as the method
\* leaves it, whether it returned or raised
FinishObs(op, arg, r) ==
    /\ self_obs.built
    /\ ret' = ObsCall(op, arg, r.status, self_obs)
    /\ self_obs' = r.self
    /\ UNCHANGED <<obs, mc, sym_cache, applied, ncalls, th, est, self_kobs>>

\* obs = Observation(image, weight=..., ...): the name is bound only when
\* the constructor returns
NewObservation(image, weight, bmask, ormask, noise, jacobian, gmix, psf, meta) ==
    LET r == ObservationInit(image, weight, bmask, ormask, noise, jacobian,
                             gmix, psf, meta)
    IN /\ ret = NoCall
       /\ ~self_obs.built /\ ~self_kobs.built
       /\ ret' = ObsCall("Observation",
                         [image |-> image, weight |-> weight, bmask |-> bmask,
                          ormask |-> ormask, noise |-> noise,
                          jacobian |-> jacobian, gmix |-> gmix, psf |-> psf,
                          meta |-> meta],
                         r.status, self_obs)
       /\ self_obs' = IF r.status = "ok" THEN r.self ELSE self_obs
       /\ UNCHANGED <<obs, mc, sym_cache, applied, ncalls, th, est, self_kobs>>

\* obs.set_image(image, update_pixels=...)
CallSetImage(image, update_pixels) ==
    FinishObs("set_image", image, SetImage(self_obs, image, update_pixels))

\* obs.set_weight(weight, update_pixels=...)
CallSetWeight(weight, update_pixels) ==
    FinishObs("set_weight", weight, SetWeight(self_obs, weight, update_pixels))

\* obs.set_jacobian(jacobian, update_pixels=...)
CallSetJacobian(jacobian, update_pixels) ==
    FinishObs("set_jacobian", jacobian,
              SetJacobian(self_obs, jacobian, update_pixels))

\* obs.jacobian = jacobian
CallJacobianSetter(jacobian) ==
    FinishObs("jacobian.setter", jacobian, JacobianSetter(self_obs, jacobian))

\* obs.update_pixels()
CallUpdatePixels ==
    FinishObs("update_pixels", None, Outcome("ok", UpdatePixels(self_obs)))

CallSetBmask(bmask) == FinishObs("set_bmask", bmask, SetBmask(self_obs, bmask))

CallSetOrmask(ormask) ==
    FinishObs("set_ormask", ormask, SetOrmask(self_obs, ormask))

CallSetNoise(noise) == FinishObs("set_noise", noise, SetNoise(self_obs, noise))

CallSetGmix(gmix) == FinishObs("set_gmix", gmix, SetGmix(self_obs, gmix))

CallSetPsf(psf) == FinishObs("set_psf", psf, SetPsf(self_obs, psf))

CallSetMeta(meta) == FinishObs("set_meta", meta, SetMeta(self_obs, meta))

CallUpdateMetaData(meta) ==
    FinishObs("update_meta_data", meta, UpdateMetaData(self_obs, meta))

\* kobs = KObservation(kimage, weight=weight, psf=psf, meta=meta)
NewKObservation(kimage, weight, psf, meta) ==
    LET r == KObservationInit(kimage, weight, psf, meta)
    IN /\ ret = NoCall
       /\ ~self_kobs.built /\ ~self_obs.built
       /\ ret' = ObsCall("KObservation",
                         [kimage |-> kimage, weight |-> weight, psf |-> psf,
                          meta |-> meta],
                         r.status, self_kobs)
       /\ self_kobs' = IF r.status = "ok" THEN r.self ELSE self_kobs
       /\ UNCHANGED <<obs, mc, sym_cache, applied, ncalls, th, est, self_obs>>

\* kobs.update_meta_data(meta)
CallKUpdateMetaData(meta) ==
    LET r == UpdateMetaData(self_kobs, meta)
    IN /\ self_kobs.built
       /\ ret' = ObsCall("KObservation.update_meta_data", meta, r.status,
                         self_kobs)
       /\ self_kobs' = r.self
       /\ UNCHANGED <<obs, mc, sym_cache, applied, ncalls, th, est, self_obs>>

\* kobs.set_psf(psf)
CallKSetPsf(psf) ==
    LET r == KSetPsf(self_kobs, psf)
    IN /\ self_kobs.built
       /\ ret' = ObsCall("KObservation.set_psf", psf, r.status, self_kobs)
       /\ self_kobs' = r.self
       /\ UNCHANGED <<obs, mc, sym_cache, applied, ncalls, th, est, self_obs>>

NextObs ==
    \/ /\ ret = NoCall
       /\ \E image \in Arrays, weight \in MaskArgs, bmask \in MaskArgs,
             ormask \in MaskArgs, noise \in MaskArgs,
             jacobian \in JacobianArgs, gmix \in GMixArgs, psf \in PsfArgs,
             meta \in MetaArgs :
             NewObservation(image, weight, bmask, ormask, noise, jacobian,
                            gmix, psf, meta)
    \/ \E image \in ArrayArgs, update_pixels \in BOOLEAN :
          CallSetImage(image, update_pixels)
    \/ \E weight \in MaskArgs, update_pixels \in BOOLEAN :
          CallSetWeight(weight, update_pixels)
    \/ \E jacobian \in JacobianArgs, update_pixels \in BOOLEAN :
          CallSetJacobian(jacobian, update_pixels)
    \/ \E jacobian \in JacobianArgs : CallJacobianSetter(jacobian)
    \/ CallUpdatePixels
    \/ \E bmask \in MaskArgs : CallSetBmask(bmask)
    \/ \E ormask \in MaskArgs : CallSetOrmask(ormask)
    \/ \E noise \in MaskArgs : CallSetNoise(noise)
    \/ \E gmix \in GMixArgs : CallSetGmix(gmix)
    \/ \E psf \in PsfArgs : CallSetPsf(psf)
    \/ \E meta \in MetaArgs : CallSetMeta(meta)
    \/ \E meta \in MetaArgs : CallUpdateMetaData(meta)
    \/ /\ ret = NoCall
       /\ \E kimage \in KImages, weight \in KWeightArgs, psf \in KPsfArgs,
             meta \in MetaArgs :
             NewKObservation(kimage, weight, psf, meta)
    \/ \E psf \in KPsfArgs : CallKSetPsf(psf)
    \/ \E meta \in MetaArgs : CallKUpdateMetaData(meta)

SpecObs == InitObs /\ [][NextObs]_vars

\* ================================================================ claims
PublicOps == {"get_obs_galshear", "get_obs_psfshear", "get_obs_dilated_only"}

Ok(c) == c.res.status = "ok"

\* C1: constructing a Metacal on an Observation without a psf raises the
\* configuration error (ValueError) and leaves no instance; every instance
\* that exists was built on an Observation with a psf.
C1_NoPsfNoPipeline ==
    /\ (ret.op = "Metacal" /\ ~has_psf(obs[ret.o]))
          => (ret.res.status = "ValueError" /\ ~mc[ret.inst].built)
    /\ \A i \in Inst : mc[i].built => has_psf(obs[mc[i].obs])

C1_Witness ==
    ret.op = "Metacal" /\ ~has_psf(obs[ret.o]) /\ ret.res.status = "ValueError"

\* the six key components of a symmetrization, and the key made of them
TupleOf(p) == <<p.nrow, p.ncol, p.g1, p.g2, p.g1psf, p.g2psf>>

KeyOf(p) == GetSymmetrizeKey(p.g1, p.g2, p.g1psf, p.g2psf, p.nrow, p.ncol)

\* a call of a public operation with a Shape, the case the operations are
\* specified for
Answerable(c) == c.op \in PublicOps /\ CheckShape(c.shear)

\* C2: every symmetrization call returns its image with the field cached
\* under its key; symmetrizations with identical (rows, cols, g1, g2, g1psf,
\* g2psf) added the identical field; symmetrizations differing in any
\* component used distinct keys.
C2_CacheCorrectness ==
    /\ \A j \in DOMAIN ret.res.syms :
          LET e == ret.res.syms[j]
          IN /\ e.image # NoArray
             /\ e.key \in DOMAIN sym_cache
             /\ e.image.pix.sym = sym_cache[e.key]
    /\ \A p, q \in applied : TupleOf(p) = TupleOf(q) => p.field = q.field
    /\ \A p, q \in applied : TupleOf(p) # TupleOf(q) => KeyOf(p) # KeyOf(q)

\* C3: no step removes or changes a cache entry; a symmetrization that
\* misses finds its key absent and leaves it present, mapped to the field it
\* added.
C3_EntriesRetained ==
    [][/\ \A k \in DOMAIN sym_cache :
             k \in DOMAIN sym_cache' /\ sym_cache'[k] = sym_cache[k]
       /\ ncalls' # ncalls =>
            \A j \in DOMAIN ret'.res.syms :
               LET e == ret'.res.syms[j]
               IN ~e.hit =>
                     /\ e.key \notin DOMAIN sym_cache
                     /\ e.key \in DOMAIN sym_cache'
                     /\ sym_cache'[e.key] = e.image.pix.sym]_vars

\* the same call made again in the current state, with realisations dw, ds
C4_Again(dw, ds) ==
    GetObsDilatedOnly(mc[ret.inst], obs[ret.o], sym_cache, ret.shear, dw, ds)

\* r hit the cache: its image is the freshly drawn image plus the cached
\* field, the cache and the drawn image are as before
C4_HitAddsCached(r) ==
    /\ r.status = "ok" /\ Len(r.syms) = 1 /\ r.syms[1].hit
    /\ r.cache = sym_cache
    /\ r.syms[1].image_in_after = r.syms[1].image_in
    /\ r.syms[1].image_in.pix.sym = NoSym
    /\ r.out[1].image =
          [r.syms[1].image_in EXCEPT !.pix.sym = sym_cache[r.syms[1].key]]

\* C4: a get_obs_dilated_only call with a Shape on a symmetrizing instance
\* returns an image, and the same call made again hits the cache, adds the
\* cached field to the drawn image, changes neither cache nor drawn image,
\* and returns the identical image.
C4_RepeatIdentical ==
    (ret.op = "get_obs_dilated_only" /\ CheckShape(ret.shear)
        /\ mc[ret.inst].symmetrize) =>
       /\ Ok(ret)
       /\ \A dw, ds \in Draws :
             /\ C4_HitAddsCached(C4_Again(dw, ds))
             /\ C4_Again(dw, ds).out[1].image = ret.res.out[1].image

C7_BadModeRaises ==
    /\ (ret.op = "get_target_psf" /\ ret.type \notin {"gal_shear", "psf_shear"})
          => ~Ok(ret)
    /\ (ret.op = "_symmetrize_noise" /\ ret.type \notin {"gal", "psf"})
          => ~Ok(ret)

\* C8: whatever was constructed and called, every input Observation has the
\* image, weight, jacobian and psf image it had before construction.
C8_InputNeverMutated ==
    \A o \in ObsIds :
       /\ obs[o].image = InputObs[o].image
       /\ obs[o].weight = InputObs[o].weight
       /\ obs[o].jacobian = InputObs[o].jacobian
       /\ obs[o].has_psf = InputObs[o].has_psf
       /\ obs[o].psf_image = InputObs[o].psf_image

C8_Witness ==
    /\ ncalls >= 2
    /\ ret.op = "get_target_psf" /\ Ok(ret)
    /\ mc[ret.inst].whiten /\ mc[ret.inst].symmetrize
    /\ ret.res.psf_image # obs[ret.o].psf_image

\* Observation n is a new one made from the input ob: on ob's pixel grid,
\* with ob's weight and jacobian, and with a psf Observation whose image is
\* a drawn one of the shape of ob's psf image
C9_Wrapped(n, ob) ==
    /\ n # ob
    /\ n.image.rows = ob.image.rows /\ n.image.cols = ob.image.cols
    /\ n.image # ob.image
    /\ n.weight = ob.weight
    /\ n.jacobian = ob.jacobian
    /\ has_psf(n)
    /\ n.psf_image.rows = ob.psf_image.rows
    /\ n.psf_image.cols = ob.psf_image.cols
    /\ n.psf_image # ob.psf_image
    /\ n.psf_image.pix.gal.ops # << >>
    /\ n.psf_image.pix.gal.ops[Len(n.psf_image.pix.gal.ops)].op = "draw"

\* C9: a public operation called with a Shape returns Observations (two
\* from get_obs_galshear with get_unsheared, else one), each a new
\* Observation on the original pixel grid with the original weight and
\* jacobian and a psf Observation holding the drawn target psf image; the
\* two of get_unsheared hold the same drawn psf image.
C9_ReturnedObservations ==
    Answerable(ret) =>
       /\ Ok(ret)
       /\ Len(ret.res.out) = IF ret.get_unsheared THEN 2 ELSE 1
       /\ \A k \in DOMAIN ret.res.out : C9_Wrapped(ret.res.out[k], obs[ret.o])
       /\ ret.get_unsheared =>
             ret.res.out[1].psf_image = ret.res.out[2].psf_image

\* the operations of a galsim model: whether it was dilated for shear s,
\* sheared by s after the step named before, or not sheared at all
C10_DilatedFor(model, s) ==
    \E k \in DOMAIN model.ops : model.ops[k] = Op("dilate", Dilation(s), 0, "")

C10_ShearedBy(model, s, before) ==
    \E j, k \in DOMAIN model.ops :
       /\ j < k
       /\ model.ops[j].op = before
       /\ model.ops[k] = Op("shear", s.g1, s.g2, "")

C10_Unsheared(model) ==
    \A k \in DOMAIN model.ops : model.ops[k].op # "shear"

\* the drawn psf image and the psf the image n was convolved with are the
\* same target psf
C10_OnePsf(n) ==
    n.psf_image.pix.gal = Drawn(mc[ret.inst], n.image.pix.kern)

\* C10: a public operation called with a Shape s returns its images;
\* get_obs_galshear(s) draws the psf dilated for s and not sheared, and
\* shears the deconvolved galaxy by s (the unsheared companion does not);
\* get_obs_psfshear(s) draws the psf dilated for s and sheared by s and
\* leaves the galaxy unsheared; get_obs_dilated_only(s) draws the psf
\* dilated for s and shears neither.
C10_ShearPlacement ==
    Answerable(ret) =>
       /\ Ok(ret)
       /\ LET s == ret.shear
              n == ret.res.out[1]
              psf == n.image.pix.kern
              gal == n.image.pix.gal
          IN /\ \A k \in DOMAIN ret.res.out : C10_OnePsf(ret.res.out[k])
             /\ C10_DilatedFor(psf, s)
             /\ ret.op = "get_obs_galshear" =>
                   /\ C10_Unsheared(psf)
                   /\ C10_ShearedBy(gal, s, "deconv")
                   /\ ret.get_unsheared =>
                         /\ C10_Unsheared(ret.res.out[2].image.pix.gal)
                         /\ ret.res.out[2].image.pix.kern = psf
             /\ ret.op = "get_obs_psfshear" =>
                   /\ C10_ShearedBy(psf, s, "dilate")
                   /\ C10_Unsheared(gal)
             /\ ret.op = "get_obs_dilated_only" =>
                   /\ C10_Unsheared(psf)
                   /\ C10_Unsheared(gal)

\* shears tried on get_target_psf: every sign pattern of small components
C11_Shears == {Shape(g1, g2) : g1 \in -2..2, g2 \in -2..2}

\* the factors by which the psf model was dilated
C11_Factors(model) ==
    {model.ops[k].a : k \in {j \in DOMAIN model.ops : model.ops[j].op = "dilate"}}

\* 1 + 2*max(|g1|, |g2|) in units of 0.01, written out
C11_Expected(s) ==
    LET a1 == IF s.g1 < 0 THEN -s.g1 ELSE s.g1
        a2 == IF s.g2 < 0 THEN -s.g2 ELSE s.g2
    IN 100 + 2 * (IF a1 >= a2 THEN a1 ELSE a2)

\* C11: on an instance get_target_psf was called on, get_target_psf
\* dilates the pixel-free psf once, by 1 + 2*max(|g1|, |g2|), in gal_shear
\* and in psf_shear mode alike and whatever the signs of g1 and g2; for
\* shear (0, 0) the factor is 1.
C11_DilationFactor ==
    \A i \in Inst : (ret.op = "get_target_psf" /\ ret.inst = i) =>
       /\ \A s \in C11_Shears, type \in {"gal_shear", "psf_shear"} :
             LET tp == GetTargetPsf(mc[i], s, type)
                 k  == Len(mc[i].gs_psf_int_nopix.ops) + 1
             IN /\ tp.status = "ok"
                /\ C11_Factors(tp.psf_interp) = {C11_Expected(s)}
                /\ tp.psf_interp.ops[k] = Op("dilate", C11_Expected(s), 0, "")
                /\ C11_Factors(tp.psf_interp) =
                      C11_Factors(GetTargetPsf(mc[i], Shape(-s.g1, s.g2),
                                               "gal_shear").psf_interp)
                /\ C11_Factors(tp.psf_interp) =
                      C11_Factors(GetTargetPsf(mc[i], Shape(s.g1, -s.g2),
                                               "psf_shear").psf_interp)
       /\ C11_Factors(GetTargetPsf(mc[i], Shape(0, 0), "gal_shear").psf_interp)
             = {100}

C11_Witness ==
    /\ ret.op = "get_target_psf" /\ Ok(ret) /\ ret.type = "psf_shear"
    /\ ret.shear = Shape(1, -2)
    /\ C11_Factors(ret.res.psf_interp) = {104}

\* the operations that take a shear and check it
C12_ShearOps ==
    PublicOps \cup {"get_target_psf", "get_sheared_image_interp_nopsf"}

\* C12: a call of a public operation, of get_target_psf or of
\* get_sheared_image_interp_nopsf with a shear that is
\* no Shape raises TypeError; it returns nothing, draws no image, makes no
\* symmetrization call and leaves the cache as it was.
C12_ShapeRequired ==
    [][(ncalls' # ncalls /\ ret'.op \in C12_ShearOps /\ ret'.shear.kind = "tuple")
          => /\ ret'.res.status = "TypeError"
             /\ ret'.res.out = << >>
             /\ ret'.res.syms = << >>
             /\ ret'.res.psf_image = NoArray /\ ret'.res.image = NoArray
             /\ sym_cache' = sym_cache
             /\ applied' = applied]_vars

C12_Witness ==
    /\ ncalls >= 2
    /\ ret.op = "get_sheared_image_interp_nopsf" /\ ret.shear = PlainPair
    /\ ret.res.status = "TypeError"
    /\ ret.res.psf_interp = NoModel

\* the mean of an array of vectors over n objects
C13_MeanOver(rows, n) == VScale(Frac(1, n), SumV(rows))

\* the standard error of the mean of the rows, per component:
\* sqrt((mean of squares - square of mean) / N)
C13_StdErr(rows) ==
    LET n  == Len(rows)
        m  == C13_MeanOver(rows, n)
        m2 == C13_MeanOver([k \in DOMAIN rows |-> VMul(rows[k], rows[k])], n)
        v  == VSub(m2, VMul(m, m))
    IN <<Sqrt(FMul(v[1], Frac(1, n))), Sqrt(FMul(v[2], Frac(1, n)))>>

\* C13: get_mean_shear returns the shear s with mean(R) . s = mean(g) -
\* mean_i(gpsf[i] * mean(Rpsf)), the means of g and of the psf correction
\* taken over the number of shapes, those of R and Rpsf over the number of
\* responses, and shear_err = inverse(mean(R)) . stderr(g); when all rows
\* of g are g0, all R the identity and Rpsf zero, shear = g0 and
\* shear_err = [0, 0].
C13_MeanShear ==
    (ret.op = "get_mean_shear" /\ Ok(ret)) =>
       LET ng    == Len(est.g)
           nR    == Len(est.R)
           Rmean == MScale(Frac(1, nR), SumM(est.R))
           Rpsfm == C13_MeanOver(est.Rpsf, nR)
           corr  == C13_MeanOver([k \in DOMAIN est.gpsf |->
                                     VMul(est.gpsf[k], Rpsfm)], ng)
           unit  == <<<<Num(1), Num(0)>>, <<Num(0), Num(1)>>>>
       IN /\ Dot(Rmean, ret.res.shear) = VSub(C13_MeanOver(est.g, ng), corr)
          /\ ret.res.shear_err =
                SurdDot(Inv(Rmean, est.residue).m, C13_StdErr(est.g))
          /\ ((\A k \in DOMAIN est.g : est.g[k] = est.g[1])
                /\ (\A k \in DOMAIN est.R : est.R[k] = unit)
                /\ (\A k \in DOMAIN est.Rpsf : est.Rpsf[k] = VZero))
              => /\ ret.res.shear = est.g[1]
                 /\ ret.res.shear_err =
                       <<<<Sqrt(Num(0)), Sqrt(Num(0))>>,
                         <<Sqrt(Num(0)), Sqrt(Num(0))>>>>

C13_Witness ==
    /\ ret.op = "get_mean_shear" /\ Ok(ret)
    /\ Len(est.g) = 2 /\ Len(est.R) = 1
    /\ est.g[1] # est.g[2]
    /\ est.Rpsf[1] # VZero
    /\ ret.res.shear_err[1][1] # Sqrt(Num(0))
    /\ ret.res.psf_corr # VZero

Jackknives == {"jackknife_shear", "jackknife_shear_weighted"}

\* what call c sums: per object the shape (less the psf response when
\* given, or times the weight) and the response (times the weight)
C14_Weight(c, k) ==
    IF c.op = "jackknife_shear_weighted" /\ c.has_weights
    THEN est.weights[k] ELSE Num(1)

C14_Rows(c) ==
    [k \in DOMAIN est.g |->
        IF c.op = "jackknife_shear" /\ c.has_Rpsf
        THEN VSub(est.g[k], est.Rpsf[k])
        ELSE VScale(C14_Weight(c, k), est.g[k])]

C14_Mats(c) == [k \in DOMAIN est.R |-> MScale(C14_Weight(c, k), est.R[k])]

\* the objects outside chunk i: all but (i-1)*chunksize+1 .. i*chunksize
C14_Outside(i, chunksize, ntot) ==
    {k \in 1..ntot : k <= (i - 1) * chunksize \/ k > i * chunksize}

C14_SumVOver(rows, keep) ==
    SumV([k \in DOMAIN rows |-> IF k \in keep THEN rows[k] ELSE VZero])

C14_SumMOver(mats, keep) ==
    SumM([k \in DOMAIN mats |-> IF k \in keep THEN mats[k] ELSE MZero])

\* C14: a jackknife has n chunks with n*chunksize <= N < (n+1)*chunksize;
\* chunk i is the run of objects (i-1)*chunksize+1 .. i*chunksize in the
\* given order, and shears[i] solves the sums over all other objects, the
\* objects past the last chunk included.
C14_Chunking ==
    (ret.op \in Jackknives /\ Ok(ret)) =>
       LET ntot == Len(est.g)
           cs   == ret.chunksize
           n    == Len(ret.res.shears)
       IN /\ n * cs <= ntot /\ ntot < (n + 1) * cs
          /\ \A i \in 1..n :
                /\ (ntot - n * cs > 0) => ntot \in C14_Outside(i, cs, ntot)
                /\ Dot(C14_SumMOver(C14_Mats(ret), C14_Outside(i, cs, ntot)),
                       ret.res.shears[i])
                      = C14_SumVOver(C14_Rows(ret), C14_Outside(i, cs, ntot))

C14_Witness ==
    /\ ret.op = "jackknife_shear" /\ Ok(ret)
    /\ Len(est.g) = 3 /\ ret.chunksize = 2
    /\ Len(ret.res.shears) = 1
    /\ ret.res.shears[1] = est.g[3]
    /\ ret.res.shears[1] # ret.res.shear

\* the ensemble without the objects of chunk i
C15_Without(e, i, chunksize) ==
    LET keep == C14_Outside(i, chunksize, Len(e.g))
        pick(arr) == [k \in 1..Cardinality(keep) |->
                         arr[CHOOSE j \in keep :
                                Cardinality({m \in keep : m < j}) = k - 1]]
    IN [e EXCEPT !.g = pick(e.g), !.gpsf = pick(e.gpsf), !.R = pick(e.R),
                 !.Rpsf = pick(e.Rpsf), !.weights = pick(e.weights)]

\* inverse(sum R) . (sum g - sum Rpsf), computed from the objects of e alone
C15_Estimate(e, has_Rpsf) ==
    Dot(Inv(SumM(e.R), e.residue).m,
        IF has_Rpsf THEN VSub(SumV(e.g), SumV(e.Rpsf)) ELSE SumV(e.g))

\* ((n-1)/n) times the sum over the chunks of the products of components a
\* and b of (overall - leave_out_i)
C15_CovEntry(overall, leave_out, a, b) ==
    LET n == Len(leave_out)
    IN FMul(FDiv(Num(n - 1), Num(n)),
            SumF([i \in 1..n |->
                     FMul(FSub(overall[a], leave_out[i][a]),
                          FSub(overall[b], leave_out[i][b]))]))

\* C15: jackknife_shear returns the shear s = inverse(sum R) . (sum g - sum
\* Rpsf); shears[i] is the same estimate computed from the objects outside
\* chunk i alone; shear_cov[a][b] = ((n-1)/n) * sum_i (s - shears[i])[a] *
\* (s - shears[i])[b], which is symmetric.
C15_DeleteOneChunk ==
    (ret.op = "jackknife_shear" /\ Ok(ret)) =>
       LET cs == ret.chunksize
           n  == Len(ret.res.shears)
           s  == ret.res.shear
       IN /\ s = C15_Estimate(est, ret.has_Rpsf)
          /\ Dot(SumM(est.R), s) =
                IF ret.has_Rpsf THEN VSub(SumV(est.g), SumV(est.Rpsf))
                ELSE SumV(est.g)
          /\ \A i \in 1..n :
                /\ Det(SumM(C15_Without(est, i, cs).R)) # Num(0)
                /\ ret.res.shears[i] =
                      C15_Estimate(C15_Without(est, i, cs), ret.has_Rpsf)
          /\ \A a, b \in 1..2 :
                /\ ret.res.shear_cov[a][b] = C15_CovEntry(s, ret.res.shears, a, b)
                /\ ret.res.shear_cov[a][b] = ret.res.shear_cov[b][a]

C15_Witness ==
    /\ ret.op = "jackknife_shear" /\ Ok(ret)
    /\ ret.chunksize = 1 /\ Len(est.g) = 3 /\ ret.has_Rpsf
    /\ est.Rpsf[1] # VZero
    /\ ret.res.shear_cov[1][2] # Num(0)
    /\ ret.res.shear_cov[1][1] # ret.res.shear_cov[2][2]

\* C16: both diagonal entries of the covariance returned by jackknife_shear
\* and by jackknife_shear_weighted are zero or positive.
C16_DiagonalNonNegative ==
    (ret.op \in Jackknives /\ Ok(ret)) =>
       \A a \in 1..2 :
          /\ ret.res.shear_cov[a][a].n >= 0
          /\ ret.res.shear_cov[a][a].d > 0

C16_Witness ==
    /\ ret.op = "jackknife_shear_weighted" /\ Ok(ret)
    /\ ret.has_weights
    /\ Len(ret.res.shears) >= 2
    /\ ret.res.shear_cov[1][1].n > 0
    /\ ret.res.shear_cov[2][2].n > 0

\* the weights jackknife_shear_weighted works with in the call of ret
C17_Weights == [k \in DOMAIN est.g |-> C14_Weight(ret, k)]

\* inverse(sum w R) . (sum w g) over the objects of the set keep
C17_Estimate(keep) ==
    Dot(Inv(C14_SumMOver(WeightedM(est.R, C17_Weights), keep),
            est.residue).m,
        C14_SumVOver(WeightedV(est.g, C17_Weights), keep))

\* C17: jackknife_shear_weighted chunks as jackknife_shear does, its shear
\* and its shears[i] are inverse(sum w R) . (sum w g) over all objects and
\* over the objects outside chunk i, and its covariance is ((n-1)/n) times
\* the sum of the products of deviations; when weights is None or every
\* weight is 1, it ends as jackknife_shear(g, gsens, None, chunksize) ends
\* and returns the same shear, shears and shear_cov.
C17_WeightedAgrees ==
    (ret.op = "jackknife_shear_weighted") =>
       LET cs    == ret.chunksize
           ntot  == Len(est.g)
           plain == JackknifeShear(est, FALSE, cs)
       IN /\ Ok(ret) =>
                /\ Len(ret.res.shears) = ntot \div cs
                /\ ret.res.shear = C17_Estimate(1..ntot)
                /\ \A i \in 1..Len(ret.res.shears) :
                      ret.res.shears[i] =
                         C17_Estimate(C14_Outside(i, cs, ntot))
                /\ \A a, b \in 1..2 :
                      ret.res.shear_cov[a][b] =
                         C15_CovEntry(ret.res.shear, ret.res.shears, a, b)
          /\ (~ret.has_weights \/ \A k \in DOMAIN est.weights :
                                      est.weights[k] = Num(1)) =>
                /\ ret.res.status = plain.status
                /\ ret.res.shear = plain.shear
                /\ ret.res.shears = plain.shears
                /\ ret.res.shear_cov = plain.shear_cov

C17_Witness ==
    /\ ret.op = "jackknife_shear_weighted" /\ Ok(ret)
    /\ ~ret.has_weights
    /\ \E k \in DOMAIN est.weights : est.weights[k] # Num(1)
    /\ Len(est.g) = 3 /\ ret.chunksize = 1
    /\ ret.res.shear_cov[1][1].n > 0
    /\ ret.res.shears[1] # ret.res.shears[2]

\* the sample covariance of the vectors rows: divisor Len(rows) - 1,
\* deviations about the mean of rows
C18_SampleCov(rows, a, b) ==
    LET n    == Len(rows)
        mean == VScale(FDiv(Num(1), Num(n)), SumV(rows))
    IN FMul(FDiv(Num(1), Num(n - 1)),
            SumF([i \in 1..n |->
                     FMul(FSub(rows[i][a], mean[a]),
                          FSub(rows[i][b], mean[b]))]))

\* C18: the covariance bootstrap_shear returns is the sample covariance of
\* the nboot recorded shears (divisor nboot - 1, deviations about their
\* mean), and shear_err is the square root of its diagonal.
C18_SampleCovariance ==
    (ret.op = "bootstrap_shear" /\ Ok(ret)) =>
       /\ \A a, b \in 1..2 :
             ret.res.shear_cov[a][b] = C18_SampleCov(ret.res.shears, a, b)
       /\ ret.res.shear_err = <<<<Sqrt(ret.res.shear_cov[1][1])>>,
                                <<Sqrt(ret.res.shear_cov[2][2])>>>>

\* the rows of arr at the 0-based indices rind, in the order drawn
C19_Picked(arr, rind) == [k \in DOMAIN rind |-> arr[rind[k] + 1]]

\* rind is a draw with replacement of n indices from 0..n-1
C19_IsDraw(rind, n) ==
    /\ Len(rind) = n
    /\ \A k \in 1..n : rind[k] \in 0..(n - 1)

\* C19: bootstrap_shear returns as shear the get_mean_shear estimate of the
\* arrays as given; it records nboot shears, and shears[i] is
\* get_mean_shear of g and gpsf at one draw of ng indices and of R and
\* Rpsf at a second draw of nR indices.
C19_Resampling ==
    (ret.op = "bootstrap_shear" /\ Ok(ret)) =>
       LET ng == Len(est.g)
           nR == Len(est.R)
       IN /\ GetMeanShear(est).status = "ok"
          /\ ret.res.shear = GetMeanShear(est).shear
          /\ Len(ret.res.shears) = ret.nboot
          /\ Len(ret.g_rinds) = ret.nboot /\ Len(ret.R_rinds) = ret.nboot
          /\ \A i \in 1..ret.nboot :
                /\ C19_IsDraw(ret.g_rinds[i], ng)
                /\ C19_IsDraw(ret.R_rinds[i], nR)
                /\ ret.res.shears[i] =
                      GetMeanShear([g    |-> C19_Picked(est.g, ret.g_rinds[i]),
                                    gpsf |-> C19_Picked(est.gpsf, ret.g_rinds[i]),
                                    R    |-> C19_Picked(est.R, ret.R_rinds[i]),
                                    Rpsf |-> C19_Picked(est.Rpsf, ret.R_rinds[i]),
                                    weights |-> est.weights,
                                    residue |-> est.residue]).shear

C19_Witness ==
    /\ ret.op = "bootstrap_shear" /\ Ok(ret)
    /\ Len(est.g) # Len(est.R)
    /\ ret.nboot = 2
    /\ ret.R_rinds[1] # ret.R_rinds[2]
    /\ ret.res.shears[1] # ret.res.shears[2]
    /\ ret.res.shear # ret.res.shears[2]

C20_Singular(m) == Det(m) = Num(0)

\* some response sum the call of ret inverts is singular: the sum over all
\* objects, a sum over the objects outside one chunk, or the sum of one
\* resample
C20_SomeSumSingular ==
    LET ntot == Len(est.g)
    IN \/ /\ ret.op \in {"get_mean_shear", "bootstrap_shear"}
          /\ C20_Singular(SumM(est.R))
       \/ /\ ret.op \in Jackknives
          /\ \/ C20_Singular(C14_SumMOver(C14_Mats(ret), 1..ntot))
             \/ \E i \in 1..(ntot \div ret.chunksize) :
                   C20_Singular(C14_SumMOver(C14_Mats(ret),
                                   C14_Outside(i, ret.chunksize, ntot)))
       \/ /\ ret.op = "bootstrap_shear"
          /\ \E i \in 1..ret.nboot :
                C20_Singular(SumM(C19_Picked(est.R, ret.R_rinds[i])))

C20_Inverted ==
    LET ntot == Len(est.g)
        mean(mats) == MScale(Frac(1, Len(mats)), SumM(mats))
    IN (IF ret.op \in {"get_mean_shear", "bootstrap_shear"}
        THEN {mean(est.R)} ELSE {})
       \cup (IF ret.op = "bootstrap_shear"
             THEN {mean(C19_Picked(est.R, ret.R_rinds[i])) :
                      i \in 1..ret.nboot}
             ELSE {})
       \cup (IF ret.op \in Jackknives
             THEN {C14_SumMOver(C14_Mats(ret), 1..ntot)}
                    \cup {C14_SumMOver(C14_Mats(ret),
                                       C14_Outside(i, ret.chunksize, ntot)) :
                             i \in 1..(ntot \div ret.chunksize)}
             ELSE {})

\* m is singular and its elimination meets a pivot that is exactly zero
\* in floating point: the first column is zero, or no rounding occurs, or
\* the roundings leave no residue
C20_ZeroPivot(m) ==
    /\ C20_Singular(m)
    /\ \/ (m[1][1] = Num(0) /\ m[2][1] = Num(0))
       \/ ExactElimination(PivotRows(m))
       \/ ~est.residue

C21_OtherSetters ==
    {"set_image", "set_bmask", "set_ormask", "set_noise", "set_gmix",
     "set_psf", "set_jacobian", "jacobian.setter", "update_pixels",
     "set_meta", "update_meta_data"}

\* C21: on a constructed Observation the weight, and the bmask, ormask and
\* noise that are present, have the image's shape; the weight is the
\* uniform 1.0 map after the constructor or set_weight took None for it,
\* and no other setter changes the weight.
C21_ArraysShareShape ==
    self_obs.built =>
       /\ Len(self_obs.image.shape) = 2
       /\ self_obs.weight.shape = self_obs.image.shape
       /\ self_obs.has_bmask => self_obs.bmask.shape = self_obs.image.shape
       /\ self_obs.has_ormask => self_obs.ormask.shape = self_obs.image.shape
       /\ self_obs.has_noise => self_obs.noise.shape = self_obs.image.shape
       /\ (ret.op = "Observation" /\ ret.arg.weight = None) =>
             self_obs.weight = Ones(self_obs.image.shape)
       /\ (ret.op = "set_weight" /\ ret.status = "ok" /\ ret.arg = None) =>
             self_obs.weight = Ones(self_obs.image.shape)
       /\ (ret.op = "set_weight" /\ ret.status # "ok") =>
             self_obs.weight = ret.before.weight
       /\ ret.op \in C21_OtherSetters => self_obs.weight = ret.before.weight

C21_Witness ==
    /\ self_obs.built
    /\ ret.op = "set_weight" /\ ret.status = "ok" /\ ret.arg = None
    /\ ret.before.weight # Ones(self_obs.image.shape)
    /\ self_obs.weight = Ones(<<2, 2>>)
    /\ self_obs.has_bmask /\ self_obs.has_ormask /\ self_obs.has_noise
    /\ self_obs.image.data = "b"

\* the places in a model's history where the operation called name stands
C22_At(ops, name) == {k \in DOMAIN ops : ops[k].op = name}

\* every operation called first stands before every one called second
C22_Before(ops, first, second) ==
    \A j \in C22_At(ops, first), k \in C22_At(ops, second) : j < k

\* C22: the psf image get_target_psf returns is the original psf image's
\* model with the pixel deconvolved, then dilated, then convolved with the
\* pixel again, then, in psf_shear mode only, sheared by the shear asked
\* for, and drawn last, without pixel convolution, on the original psf
\* image's grid; in gal_shear mode it is sheared at no step.
C22_StepOrder ==
    (ret.op = "get_target_psf" /\ Ok(ret)
        /\ ret.type \in {"gal_shear", "psf_shear"}) =>
       LET m    == mc[ret.inst]
           ops  == ret.res.psf_image.pix.gal.ops
           n    == Len(ops)
       IN /\ ret.res.psf_image.pix.gal.src = m.gs_psf_image.pix.gal.src
          /\ ret.res.psf_image.rows = m.gs_psf_image.rows
          /\ ret.res.psf_image.cols = m.gs_psf_image.cols
          /\ \A name \in {"deconv", "dilate", "conv", "draw"} :
                Cardinality(C22_At(ops, name)) = 1
          /\ \A k \in C22_At(ops, "deconv") \cup C22_At(ops, "conv") :
                ops[k].k = "pixel"
          /\ C22_Before(ops, "deconv", "dilate")
          /\ C22_Before(ops, "dilate", "conv")
          /\ C22_Before(ops, "conv", "shear")
          /\ ops[n] = Op("draw", m.pixel_scale, 0, "no_pixel")
          /\ ret.res.psf_interp.ops = SubSeq(ops, 1, n - 1)
          /\ ret.type = "psf_shear" =>
                /\ Cardinality(C22_At(ops, "shear")) = 1
                /\ ops[n - 1] = Op("shear", ret.shear.g1, ret.shear.g2, "")
                /\ ops[n - 2].op = "conv"
          /\ ret.type = "gal_shear" =>
                /\ C22_At(ops, "shear") = {}
                /\ ops[n - 1].op = "conv"

C22_Witness ==
    /\ ret.op = "get_target_psf" /\ Ok(ret) /\ ret.type = "psf_shear"
    /\ ret.shear = Shape(1, -2)
    /\ LET ops == ret.res.psf_image.pix.gal.ops
       IN /\ Len(ops) = 6
          /\ ops[3].op = "dilate" /\ ops[4].op = "conv"
          /\ ops[5] = Op("shear", 1, -2, "") /\ ops[6].op = "draw"

\* the symmetrization call e used a key of the given type, gal-shear
\* components g, psf-shear components gp and the grid of image im
C23_Keyed(e, type, g, gp, im) ==
    /\ e.type = type
    /\ e.g1 = g.g1 /\ e.g2 = g.g2
    /\ e.g1psf = gp.g1 /\ e.g2psf = gp.g2
    /\ e.nrow = im.rows /\ e.ncol = im.cols
    /\ e.nrow = e.image_in.rows /\ e.ncol = e.image_in.cols

\* C23: on a symmetrizing instance a public operation called with a Shape
\* s symmetrizes every image it returns: get_obs_galshear(s) with the
\* gal-type key of gal shear s and psf shear (0, 0), and its unsheared
\* companion with the gal-type key of all zeros; get_obs_dilated_only with
\* the gal-type key of all zeros; get_obs_psfshear(s) with the psf-type key
\* of gal shear (0, 0) and psf shear s; rows and cols are the drawn image's.
C23_KeyComponents ==
    (Answerable(ret) /\ mc[ret.inst].symmetrize) =>
       /\ Ok(ret)
       /\ LET s    == ret.shear
              zero == Shape(0, 0)
              syms == ret.res.syms
              out  == ret.res.out
          IN /\ Len(syms) = Len(out)
             /\ ret.op = "get_obs_galshear" =>
                   /\ C23_Keyed(syms[1], "gal", s, zero, out[1].image)
                   /\ ret.get_unsheared =>
                         C23_Keyed(syms[2], "gal", zero, zero, out[2].image)
             /\ ret.op = "get_obs_dilated_only" =>
                   C23_Keyed(syms[1], "gal", zero, zero, out[1].image)
             /\ ret.op = "get_obs_psfshear" =>
                   C23_Keyed(syms[1], "psf", zero, s, out[1].image)

C26_RejectedLeavesUnchanged ==
    /\ (ret.op \in {"set_psf", "set_gmix"} /\ ret.status # "ok")
          => self_obs = ret.before
    /\ (ret.op = "KObservation.set_psf" /\ ret.status # "ok")
          => self_kobs = ret.before

EstimatorOps ==
    {"get_mean_shear", "jackknife_shear", "jackknife_shear_weighted",
     "bootstrap_shear"}

\* C27: an estimator call leaves its input arrays g, gpsf, R (gsens), Rpsf
\* and weights as they were, whether it returns or raises.
C27_InputsPreserved ==
    [][ret'.op \in EstimatorOps => est' = est]_vars

C27_Witness ==
    /\ ret.op \in {"get_mean_shear", "bootstrap_shear"}
    /\ ret.res.status = "ok"
    /\ ret.res.psf_corr # VZero
    /\ \E k \in DOMAIN est.gpsf : VMul(est.gpsf[k], ret.res.Rpsf) # est.gpsf[k]

\* the orders in which n loop iterations can be processed: the 0-based
\* iteration indices, each once
C28_Orders(n) ==
    {p \in [1..n -> 0..(n - 1)] : \A a, b \in 1..n : a # b => p[a] # p[b]}

\* the loop of the call of ret run over its iterations in the order p,
\* from the state in which the call enters it
C28_Loop(p) ==
    IF ret.op = "jackknife_shear"
    THEN JackknifeLoop(JackknifeStart(est, ret.has_Rpsf, ret.chunksize),
                       est, ret.has_Rpsf, ret.chunksize, p)
    ELSE IF ret.op = "jackknife_shear_weighted"
    THEN JackknifeWeightedLoop(
             JackknifeWeightedStart(est, C17_Weights, ret.chunksize),
             est, C17_Weights, ret.chunksize, p)
    ELSE BootstrapLoop(BootstrapStart(est, ret.nboot), est, ret.g_rinds,
                       ret.R_rinds, p)

\* C28: the loop of a jackknife run over the chunks in any order ends as
\* the loop of the code does, with the same global sums, the same set of
\* leave-out estimates and the same shear_cov; the loop of bootstrap_shear
\* run over its iterations in any order ends as the loop of the code
\* does, with the same covariance.
C28_OrderFree ==
    /\ ret.op \in Jackknives =>
          LET n == NChunks(Len(est.g), ret.chunksize)
          IN \A p \in C28_Orders(n) :
                LET st == C28_Loop(p)
                IN /\ st.status = C28_Loop(Range(n)).status
                   /\ Ok(ret) =>
                         /\ st.g_sum = ret.res.g_sum
                         /\ st.R_sum = ret.res.R_sum
                         /\ {st.shears[k] : k \in 1..n}
                               = {ret.res.shears[k] : k \in 1..n}
                         /\ JackknifeCov(ret.res.shear, st.shears, n)
                               = ret.res.shear_cov
    /\ ret.op = "bootstrap_shear" =>
          \A p \in C28_Orders(ret.nboot) :
             LET st == C28_Loop(p)
             IN /\ st.status = C28_Loop(Range(ret.nboot)).status
                /\ Ok(ret) =>
                      BootstrapCov(ret.res.shear, st.shears, ret.nboot)
                         = ret.res.shear_cov

C28_Witness ==
    /\ ret.op = "jackknife_shear" /\ Ok(ret) /\ ret.has_Rpsf
    /\ Len(ret.res.shears) = 3
    /\ ret.res.shears[1] # ret.res.shears[2]
    /\ ret.res.shears[1] # ret.res.shear
    /\ ret.res.shear_cov # MZero

====
